---- MODULE Spec2Model ----
(***************************************************************************)
(* State-machine model of the temperature monitor (src/app.py): the        *)
(* background sampling loop (background_logger / log_temperature), the     *)
(* alert dispatcher (check_and_send_alerts and its two channels), the fan  *)
(* controller (control_fan) run by the on-demand request handlers, the     *)
(* statistics reset, the configuration update, the CSV export, the voice   *)
(* command router with its listener thread and history readers, the        *)
(* shutdown handlers of the main thread, and the fan endpoint of the       *)
(* remote peer (src/pi_service.py).                                        *)
(*                                                                         *)
(* Times are seconds.  Temperatures and thresholds are degrees Celsius,    *)
(* restricted to integers (the code only compares them).                   *)
(***************************************************************************)
EXTENDS Integers, Sequences, FiniteSets, TLC

\* ------------------------------------------------------------------ bounds
\* Spec: ticks of the background loop and administrative requests
\* (statistics resets, configuration updates) that are explored.
MaxSamples == 3
MaxRequests == 1
\* SpecFan: ticks of the background loop, on-demand probes and statistics
\* resets that are explored.
FanMaxSamples == 1
FanMaxProbes == 2
FanMaxResets == 1
\* SpecTune: on-demand probes and configuration updates that are explored.
TuneMaxProbes == 2
TuneMaxConfigs == 1
\* SpecVoice: voice commands, toggles and resets that are explored.
VoiceMaxCommands == 2
VoiceMaxToggles == 1
VoiceMaxResets == 1
\* SpecTelemetry: ticks of the background loop and statistics resets that
\* are explored.
TelemetryMaxSamples == 2
TelemetryMaxResets == 1
\* SpecClock: ticks of the background loop that are explored, and the time
\* that passes while a tick runs.
ClockMaxSamples == 2
ClockMaxElapsed == 1
\* SpecExport: ticks of the background loop that are explored.
ExportMaxSamples == 2
\* SpecRace: voice toggles and voice commands that are explored.
RaceMaxToggles == 2
RaceMaxCommands == 1
\* SpecSource: on-demand probes that are explored.
SourceMaxProbes == 2
\* SpecLoop: ticks of the background loop that are explored.
LoopMaxSamples == 2
\* SpecLog: quiet ticks of the background loop that lie behind the first
\* state (one fewer than the log buffer holds), then ticks, voice commands
\* and voice toggles that are explored.
LogAgedTicks == 999
LogMaxSamples == 1
LogMaxCommands == 1
LogMaxToggles == 1
\* SpecCapacity: ticks of the background loop that are explored.
CapacityMaxSamples == 2
\* SpecStore: ticks of the background loop, on-demand probes and
\* administrative requests that are explored.
StoreMaxSamples == 2
StoreMaxProbes == 2
StoreMaxRequests == 1
\* SpecHistory: voice commands that are explored.
HistoryMaxCommands == 2
\* SpecListen: phrases the listener hears and voice toggles that are
\* explored.
ListenMaxCommands == 2
ListenMaxToggles == 2
\* SpecPeer: fan requests to the remote peer that are explored.
PeerMaxRequests == 2
\* SpecShutdown: on-demand probes that are explored.
ShutdownMaxProbes == 2
\* Number of concurrently running request handler threads.
NumWorkers == 2

Workers == 1..NumWorkers

\* The readings get_cpu_temp returns.  Under the initial thresholds 60/70/80:
\* 65 is above normal and raises no alert, 75 is a high alert, 105 a critical
\* one (and lies above the statistics' initial minimum).  The fan controller
\* is exercised with a reading below normal and one above high.
Temps == {65, 75, 105}
FanTemps == {55, 75}
\* Readings below and between the thresholds, for the fan controller while
\* the thresholds are being changed.
TuneTemps == {55, 72}
\* A reading below every threshold, and the readings of SpecLog: it and a
\* high alert.
QuietTemp == 55
LogTemps == {QuietTemp, 75}

\* Python's None.
None == "None"

Levels == {"critical", "high"}

\* ------------------------------------------------------- program constants
LOG_BUFFER_MAXLEN == 1000
INIT_MAX_TEMP == 0
INIT_MIN_TEMP == 100
COOLDOWN_MINUTES_CRITICAL == 5
COOLDOWN_MINUTES_HIGH == 15

SIMULATED_BASE == 45
SIMULATED_JITTER_LOW == -10
SIMULATED_JITTER_HIGH == 25

\* ------------------------------------------------------------ configuration
\* The fields of config that the modelled code reads.
MkConfig(n, h, c, hours, interval, email, telegram, to, pin, remote, mqtt) ==
    [fan_pin              |-> pin,
     mqtt_enabled         |-> mqtt,
     use_remote_pi        |-> remote,
     temp_threshold       |-> n,
     temp_threshold_high  |-> h,
     temp_critical        |-> c,
     data_retention_hours |-> hours,
     log_interval         |-> interval,
     email_alerts         |-> email,
     telegram_alerts      |-> telegram,
     email_to             |-> to]

\* Configurations load_config may return at startup: the default thresholds
\* with the recipient set, and three sampling periods; the telemetry sink is
\* off, as in DEFAULT_CONFIG.
InitConfigs ==
    { MkConfig(60, 70, 80, 1, i, TRUE, TRUE, "ops@example.org", 14, r, FALSE) :
        i \in {150, 450, 1800}, r \in {TRUE} }

\* Configurations the configuration page accepts and saves (it validates the
\* thresholds and the pin only, lines 1232-1238) and load_config returns at
\* the next start: sampling periods that do not divide the retention time.
CapacityConfigs ==
    { MkConfig(60, 70, 80, 1, i, TRUE, TRUE, "ops@example.org", 14, TRUE, FALSE) :
        i \in {450, 1000, 7200} }

\* The same with the telemetry sink switched on in config.json.
TelemetryConfigs ==
    { MkConfig(60, 70, 80, 1, i, TRUE, TRUE, "ops@example.org", 14, TRUE, TRUE) :
        i \in {150, 450, 1800} }

\* Forms posted to /config: a valid one that raises the thresholds (normal
\* above the former high, high and critical onto two of the readings) and
\* changes the capacity, a valid one
\* that shrinks the capacity and unticks the e-mail box, one whose normal
\* and high thresholds are equal, and one whose pin does not exist.
ConfigForms ==
    { MkConfig(72, 75, 105, 1, 450,  TRUE,  TRUE, "ops@example.org", 14, TRUE, FALSE),
      MkConfig(60, 70, 80,  1, 1800, FALSE, TRUE, "ops@example.org", 14, TRUE, FALSE),
      MkConfig(70, 70, 90,  1, 120,  TRUE,  TRUE, "ops@example.org", 14, TRUE, FALSE),
      MkConfig(65, 75, 85,  1, 120,  TRUE,  TRUE, "ops@example.org", 41, TRUE, FALSE) }

\* What can happen to a posted form besides validation: a field that int()
\* or float() rejects (ValueError), or save_config failing to write the file.
ConfigEnvs == {"ok", "bad_input", "save_fails"}

\* deque(maxlen=int(hours * 3600 / interval)): int() truncates the quotient.
HistoryCapacity(cfg) == (cfg.data_retention_hours * 3600) \div cfg.log_interval

\* collections.deque.append on a deque with the given maxlen: when the deque
\* is full the element at the left end is discarded.  (DequeAppendNoEvict
\* and the other definitions that stand directly before the definition they
\* vary are faulty variants, used to test that the properties below detect
\* such faults.)
DequeAppendEvictNewest(q, x, maxlen) ==
    IF maxlen = 0 THEN <<>>
    ELSE IF Len(q) >= maxlen THEN Append(SubSeq(q, 1, Len(q) - 1), x)
    ELSE Append(q, x)

DequeAppendNoEvict(q, x, maxlen) == Append(q, x)

DequeAppend(q, x, maxlen) ==
    IF maxlen = 0 THEN <<>>
    ELSE IF Len(q) >= maxlen THEN Append(Tail(q), x)
    ELSE Append(q, x)

\* The dictionary system_stats is created with at module load.
InitialStats(t) ==
    [uptime_start         |-> t,
     fan_cycles           |-> 0,
     max_temp             |-> INIT_MAX_TEMP,
     min_temp             |-> INIT_MIN_TEMP,
     alerts_triggered     |-> 0,
     last_alert           |-> None,
     email_alerts_sent    |-> 0,
     telegram_alerts_sent |-> 0]

\* The dictionary reset_stats rebinds system_stats to.
ResetStatsValue(t) ==
    [uptime_start     |-> t,
     fan_cycles       |-> 0,
     max_temp         |-> INIT_MAX_TEMP,
     min_temp         |-> INIT_MIN_TEMP,
     alerts_triggered |-> 0]

\* The branch of check_and_send_alerts' if/elif/else a temperature takes.
AlertTypeInclusive(temp, high, critical) ==
    IF temp >= critical THEN "critical"
    ELSE IF temp >= high THEN "high"
    ELSE None

AlertTypeSwapped(temp, high, critical) ==
    IF temp > high THEN "high"
    ELSE IF temp > critical THEN "critical"
    ELSE None

AlertType(temp, high, critical) ==
    IF temp > critical THEN "critical"
    ELSE IF temp > high THEN "high"
    ELSE None

CooldownMinutes(alert_type) ==
    IF alert_type = "critical" THEN COOLDOWN_MINUTES_CRITICAL
    ELSE COOLDOWN_MINUTES_HIGH

\* check_and_send_alerts' cooldown test: TRUE when the alert is suppressed.
InCooldownInclusive(cooldown, alert_type, current_time) ==
    /\ alert_type \in DOMAIN cooldown
    /\ current_time - cooldown[alert_type] <= CooldownMinutes(alert_type) * 60

InCooldownAnyLevel(cooldown, alert_type, current_time) ==
    \E level \in DOMAIN cooldown :
        current_time - cooldown[level] < CooldownMinutes(alert_type) * 60

InCooldown(cooldown, alert_type, current_time) ==
    /\ alert_type \in DOMAIN cooldown
    /\ current_time - cooldown[alert_type] < CooldownMinutes(alert_type) * 60

\* ------------------------------------------------------ temperature source
\* What the sources of one call of get_cpu_temp do: the local vcgencmd probe
\* prints a reading, prints nothing, or fails with an exception; the request
\* to the remote service fails, is answered with a status other than 200,
\* with a body that is not a JSON object, with an object without the key
\* temperature, or with the reading of the peer, whose own probe works or
\* not; reading is what a working probe prints and simulated the value of
\* 45 + random.uniform(-10, 25).
SourceEnvs ==
    [local     : {"ok", "unavailable", "raises"},
     remote    : {"unreachable", "error_status", "malformed",
                  "no_temperature", "answers"},
     peer      : {"ok", "failed"},
     reading   : {55, 75},
     simulated : {SIMULATED_BASE + SIMULATED_JITTER_LOW,
                  SIMULATED_BASE + SIMULATED_JITTER_HIGH}]

\* pi_service.get_cpu_temp and get_temperature: the peer's reading, 0.0 when
\* its probe printed nothing or raised.
PiGetCpuTemp(e) == IF e.peer = "ok" THEN e.reading ELSE 0

\* get_cpu_temp.
GetCpuTemp(cfg, e) ==
    IF e.local = "ok" THEN e.reading
    ELSE IF e.local = "raises" THEN e.simulated
    ELSE IF cfg.use_remote_pi /\ e.remote = "answers" THEN PiGetCpuTemp(e)
    ELSE IF cfg.use_remote_pi /\ e.remote = "no_temperature" THEN 0
    ELSE e.simulated

\* ------------------------------------------------------------ voice commands
\* A command text is a sequence of characters.  str.lower(), str.strip() and
\* the substring test `word in command_text`:
UpperCase == <<"A", "B", "C", "D", "E", "F", "G", "H", "I", "J", "K", "L", "M",
               "N", "O", "P", "Q", "R", "S", "T", "U", "V", "W", "X", "Y", "Z">>
LowerCase == <<"a", "b", "c", "d", "e", "f", "g", "h", "i", "j", "k", "l", "m",
               "n", "o", "p", "q", "r", "s", "t", "u", "v", "w", "x", "y", "z">>

Lower(ch) ==
    IF \E i \in DOMAIN UpperCase : UpperCase[i] = ch
    THEN LowerCase[CHOOSE i \in DOMAIN UpperCase : UpperCase[i] = ch]
    ELSE ch

StrLower(text) == [i \in 1..Len(text) |-> Lower(text[i])]

RECURSIVE StripLeft(_)
StripLeft(text) ==
    IF text # <<>> /\ text[1] = " " THEN StripLeft(Tail(text)) ELSE text

RECURSIVE StripRight(_)
StripRight(text) ==
    IF text # <<>> /\ text[Len(text)] = " "
    THEN StripRight(SubSeq(text, 1, Len(text) - 1))
    ELSE text

Strip(text) == StripRight(StripLeft(text))

Contains(text, word) ==
    \E i \in 1..(Len(text) - Len(word) + 1) :
        SubSeq(text, i, i + Len(word) - 1) = word

AnyWordIn(words, text) == \E word \in words : Contains(text, word)

\* The word lists of process_voice_command's branches, in the order of the
\* branches.
TemperatureWords ==
    { <<"t", "e", "m", "p", "e", "r", "a", "t", "u", "r", "e">>,
      <<"t", "e", "m", "p">>,
      <<"h", "o", "t">>,
      <<"h", "e", "a", "t">> }

FanWords ==
    { <<"f", "a", "n">>,
      <<"c", "o", "o", "l", "i", "n", "g">>,
      <<"v", "e", "n", "t", "i", "l", "a", "t", "i", "o", "n">> }

SystemWords ==
    { <<"s", "t", "a", "t", "u", "s">>,
      <<"s", "y", "s", "t", "e", "m">>,
      <<"h", "e", "a", "l", "t", "h">>,
      <<"o", "v", "e", "r", "v", "i", "e", "w">> }

AlertWords ==
    { <<"a", "l", "e", "r", "t">>,
      <<"n", "o", "t", "i", "f", "i", "c", "a", "t", "i", "o", "n">>,
      <<"w", "a", "r", "n", "i", "n", "g">> }

MemoryWords ==
    { <<"m", "e", "m", "o", "r", "y">>,
      <<"r", "a", "m">>,
      <<"p", "e", "r", "f", "o", "r", "m", "a", "n", "c", "e">> }

StatisticsWords ==
    { <<"s", "t", "a", "t", "i", "s", "t", "i", "c", "s">>,
      <<"s", "t", "a", "t", "s">>,
      <<"s", "u", "m", "m", "a", "r", "y">> }

HelpWords ==
    { <<"h", "e", "l", "p">>,
      <<"c", "o", "m", "m", "a", "n", "d", "s">>,
      <<"w", "h", "a", "t", " ", "c", "a", "n", " ", "y", "o", "u", " ", "d", "o">> }

ReportWords ==
    { <<"r", "e", "p", "o", "r", "t">>,
      <<"g", "e", "n", "e", "r", "a", "t", "e">>,
      <<"e", "x", "p", "o", "r", "t">>,
      <<"d", "o", "w", "n", "l", "o", "a", "d">> }

DisableWords ==
    { <<"v", "o", "i", "c", "e", " ", "c", "o", "n", "t", "r", "o", "l", " ", "o", "f", "f">>,
      <<"s", "t", "o", "p", " ", "l", "i", "s", "t", "e", "n", "i", "n", "g">>,
      <<"d", "i", "s", "a", "b", "l", "e", " ", "v", "o", "i", "c", "e">> }

\* process_voice_command, lines 373-465: the branch of the if/elif chain a
\* command text takes.
VoiceCategoryFanFirst(command_text) ==
    LET text == Strip(StrLower(command_text)) IN
    IF AnyWordIn(FanWords, text) THEN "fan"
    ELSE IF AnyWordIn(TemperatureWords, text) THEN "temperature"
    ELSE IF AnyWordIn(SystemWords, text) THEN "system"
    ELSE IF AnyWordIn(AlertWords, text) THEN "alerts"
    ELSE IF AnyWordIn(MemoryWords, text) THEN "memory"
    ELSE IF AnyWordIn(StatisticsWords, text) THEN "statistics"
    ELSE IF AnyWordIn(HelpWords, text) THEN "help"
    ELSE IF AnyWordIn(ReportWords, text) THEN "report"
    ELSE IF AnyWordIn(DisableWords, text) THEN "disable"
    ELSE "fallback"

VoiceCategory(command_text) ==
    LET text == Strip(StrLower(command_text)) IN
    IF AnyWordIn(TemperatureWords, text) THEN "temperature"
    ELSE IF AnyWordIn(FanWords, text) THEN "fan"
    ELSE IF AnyWordIn(SystemWords, text) THEN "system"
    ELSE IF AnyWordIn(AlertWords, text) THEN "alerts"
    ELSE IF AnyWordIn(MemoryWords, text) THEN "memory"
    ELSE IF AnyWordIn(StatisticsWords, text) THEN "statistics"
    ELSE IF AnyWordIn(HelpWords, text) THEN "help"
    ELSE IF AnyWordIn(ReportWords, text) THEN "report"
    ELSE IF AnyWordIn(DisableWords, text) THEN "disable"
    ELSE "fallback"

\* Lines 378-385: the wording chosen for a reading (reading and thresholds in
\* the same unit).
VoiceSeverityAscending(temp, normal, high, critical) ==
    IF temp > normal THEN "warm"
    ELSE IF temp > high THEN "warning"
    ELSE IF temp > critical THEN "critical"
    ELSE "normal"

VoiceSeverity(temp, normal, high, critical) ==
    IF temp > critical THEN "critical"
    ELSE IF temp > high THEN "warning"
    ELSE IF temp > normal THEN "warm"
    ELSE "normal"

\* f"{temp:.1f}": a reading given in hundredths of a degree is shown rounded
\* to tenths.  (Readings that end in 5 hundredths are rounded up or down
\* depending on their binary representation; none is used below.)
Format1f(hundredths) == (hundredths + 5) \div 10

\* The texts posted to /api/voice/test:
\*   "What's the TEMPerature"
\*   "fan temp"
\*   "photo"
\*   "Cooling status"
\*   "system alert"
\*   "alert summary"
\*   "program"
\*   "stats help"
\*   "help report"
\*   "export"
\*   "  stop listening "
\*   "stop listening to alerts"
\*   "hello"
\*   ""
VoiceTexts ==
    { <<"W", "h", "a", "t", "'", "s", " ", "t", "h", "e", " ", "T", "E", "M", "P", "e", "r", "a", "t", "u", "r", "e">>,
      <<"f", "a", "n", " ", "t", "e", "m", "p">>,
      <<"p", "h", "o", "t", "o">>,
      <<"C", "o", "o", "l", "i", "n", "g", " ", "s", "t", "a", "t", "u", "s">>,
      <<"s", "y", "s", "t", "e", "m", " ", "a", "l", "e", "r", "t">>,
      <<"a", "l", "e", "r", "t", " ", "s", "u", "m", "m", "a", "r", "y">>,
      <<"p", "r", "o", "g", "r", "a", "m">>,
      <<"s", "t", "a", "t", "s", " ", "h", "e", "l", "p">>,
      <<"h", "e", "l", "p", " ", "r", "e", "p", "o", "r", "t">>,
      <<"e", "x", "p", "o", "r", "t">>,
      <<" ", " ", "s", "t", "o", "p", " ", "l", "i", "s", "t", "e", "n", "i", "n", "g", " ">>,
      <<"s", "t", "o", "p", " ", "l", "i", "s", "t", "e", "n", "i", "n", "g", " ", "t", "o", " ", "a", "l", "e", "r", "t", "s">>,
      <<"h", "e", "l", "l", "o">>,
      <<>> }

\* A command that disables voice control and one that does not.
\* listen_for_commands, line 486: the activation phrases.
WakeWords ==
    { <<"r", "a", "s", "p", "b", "e", "r", "r", "y", " ", "p", "i">>,
      <<"c", "o", "m", "p", "u", "t", "e", "r">>,
      <<"s", "y", "s", "t", "e", "m">> }

\* What recognize_google returns for the phrases heard: two with an
\* activation phrase (a help and a disable command) and one without.
ListenTexts ==
    { <<"C", "o", "m", "p", "u", "t", "e", "r", " ", "h", "e", "l", "p">>,
      <<"c", "o", "m", "p", "u", "t", "e", "r", " ", "s", "t", "o", "p", " ", "l", "i", "s", "t", "e", "n", "i", "n", "g">>,
      <<"s", "t", "o", "p", " ", "l", "i", "s", "t", "e", "n", "i", "n", "g">> }

RaceTexts ==
    { <<"d", "i", "s", "a", "b", "l", "e", " ", "v", "o", "i", "c", "e">>,
      <<"h", "e", "l", "p">> }

\* Readings of get_cpu_temp in hundredths of a degree, at, just above and
\* well above the initial thresholds 60/70/80.
VoiceReadings == {6000, 6004, 7249, 8004, 8500}

\* ------------------------------------------------------------------ state
VARIABLES
    \* the program's globals
    config, TEMP_THRESHOLD, TEMP_THRESHOLD_HIGH, TEMP_CRITICAL,
    temp_history, history_maxlen, system_stats, stats_id,
    alert_cooldown, LOG_BUFFER, GPIO_AVAILABLE, fan_active,
    voice_enabled, voice_response_queue, n_voice, n_toggles,
    \* the telemetry client (TRUE when startup connected it), and what the
    \* program handed to the outside: the readings published to the broker,
    \* the "Fan control unavailable" notices written to the log output and
    \* the samples control_fan was called with while the driver was missing
    mqtt_client, published, degraded_notices, probed,
    \* the wall clock
    now,
    \* the background thread: its position in log_temperature and its locals
    lg,
    \* the request handler threads: position and locals of each
    rq,
    \* history variables, read only by the properties
    appended, since_reset, transitions, deliveries, reports,
    last_sample, n_samples, n_probes, n_resets, n_configs,
    \* the main thread: its position in the __main__ block, how app.run ended
    \* and whether a handler called fan.off()
    main,
    \* the voice listener thread: its position in listen_for_commands and the
    \* command it recognised
    ls,
    \* a history variable: every entry ever put on voice_response_queue
    voice_put,
    \* the remote peer (pi_service): its driver flag, its fan and, as a
    \* history, the fan requests it served with their answers
    pi

progVars  == <<config, TEMP_THRESHOLD, TEMP_THRESHOLD_HIGH, TEMP_CRITICAL,
               temp_history, history_maxlen, system_stats, stats_id,
               alert_cooldown, LOG_BUFFER, GPIO_AVAILABLE, fan_active>>
ghostVars == <<appended, since_reset, transitions, deliveries, reports,
               last_sample, n_samples, n_probes, n_resets, n_configs>>
\* n_voice and n_toggles count the voice requests served.
voiceVars == <<voice_enabled, voice_response_queue, n_voice, n_toggles>>
envVars   == <<mqtt_client, published, degraded_notices, probed>>
auxVars   == <<main, ls, voice_put, pi>>
vars      == <<progVars, voiceVars, envVars, now, lg, rq, ghostVars, auxVars>>

thresholdVars == <<config, TEMP_THRESHOLD, TEMP_THRESHOLD_HIGH, TEMP_CRITICAL>>

\* current_time is check_and_send_alerts' local of that name; raised is a
\* history field: the channels in which an exception was raised in this tick.
LgIdle == [pc |-> "idle", temp |-> 0, timestamp |-> 0, fan_active |-> FALSE,
           alert_type |-> None, high |-> 0, critical |-> 0, current_time |-> 0,
           email_sent |-> FALSE, telegram_sent |-> FALSE, attempted |-> {},
           raised |-> {}]

\* turned_on is a history field: whether this call's fan.on() found the fan off.
\* form and response are the form a configuration request posted (a sequence
\* of one form, empty for the other requests) and the message its page
\* shows; they stay until the thread serves its next request.  source is a
\* history field: what the sources did when the request sampled them.  reply
\* is what /api/voice/test answered (a sequence of one answer).
\* rows are the rows export_csv has written; it_index and it_state are the
\* position of its iterator over temp_history and the deque's state (its
\* count of mutations) when the iterator was made; snapshot is a history
\* field: temp_history as it was at that moment.  flag is the value of
\* voice_enabled that toggle_voice_control read.  history and temp_queue are
\* the locals of voice_command_history (voice_history for the voice_control
\* page); shown is what the request returned of them (a sequence of one
\* list).
RqIdle == [pc |-> "idle", temp |-> 0, stats_ref |-> 0, loaded |-> 0,
           turned_on |-> FALSE, form |-> <<>>, response |-> None,
           source |-> <<>>, reply |-> <<>>, rows |-> <<>>, it_index |-> 0,
           it_state |-> 0, snapshot |-> <<>>, flag |-> FALSE,
           history |-> <<>>, temp_queue |-> <<>>, shown |-> <<>>]

\* The main thread serving requests in app.run, line 2449.
MainServing == [pc |-> "serving", cause |-> None, commanded_off |-> FALSE]

\* The listener thread at the top of its loop, line 470.
LsIdle == [pc |-> "idle", command |-> <<>>]

\* pi_service at module load, lines 16-25: the fan is created switched off
\* when the driver is there.
PiLoaded(available) ==
    [available |-> available, fan |-> FALSE, served |-> <<>>]

\* Module load, lines 55-137, for the configurations load_config may return:
\* the telemetry client is created when the sink is enabled and the broker
\* accepts the connection.  peer_drivers are the outcomes of the peer's own
\* driver initialisation.
InitOf(configs, peer_drivers) ==
    /\ config \in configs
    /\ TEMP_THRESHOLD = config.temp_threshold
    /\ TEMP_THRESHOLD_HIGH = config.temp_threshold_high
    /\ TEMP_CRITICAL = config.temp_critical
    /\ temp_history = <<>>
    /\ history_maxlen = HistoryCapacity(config)
    /\ system_stats = InitialStats(0)
    /\ stats_id = 0
    /\ alert_cooldown = <<>>
    /\ LOG_BUFFER = <<>>
    /\ GPIO_AVAILABLE \in BOOLEAN
    /\ fan_active = FALSE
    /\ voice_enabled = FALSE
    /\ voice_response_queue = <<>>
    /\ n_voice = 0
    /\ n_toggles = 0
    /\ mqtt_client \in (IF config.mqtt_enabled THEN BOOLEAN ELSE {FALSE})
    /\ published = <<>>
    /\ degraded_notices = 0
    /\ probed = <<>>
    /\ now = 0
    /\ lg = LgIdle
    /\ rq = [w \in Workers |-> RqIdle]
    /\ appended = <<>>
    /\ since_reset = <<>>
    /\ transitions = 0
    /\ deliveries = <<>>
    /\ reports = <<>>
    /\ last_sample = [taken |-> FALSE, temp |-> 0, normal |-> 0]
    /\ n_samples = 0
    /\ n_probes = 0
    /\ n_resets = 0
    /\ n_configs = 0
    /\ main = MainServing
    /\ ls = LsIdle
    /\ voice_put = <<>>
    /\ pi \in {PiLoaded(available) : available \in peer_drivers}

InitWith(configs) == InitOf(configs, {TRUE})

\* The k-th tick of a run whose ticks all sample QuietTemp with the fan off:
\* its reading (lines 541-546) and its INFO entry (lines 555-563).  Ticks
\* are log_interval apart (line 613).
QuietReading(k, interval) ==
    [timestamp |-> (k - 1) * interval, temperature |-> QuietTemp,
     fan_active |-> FALSE]

QuietEntry(k, interval) ==
    [timestamp |-> (k - 1) * interval, level |-> "INFO",
     temperature |-> QuietTemp, fan_status |-> FALSE]

\* The state the program is in after k such ticks from module load, the
\* driver being available: what k rounds of LogSample .. LogInfo with
\* QuietTemp make of the state InitWith(configs).
InitAfterQuietTicks(configs, k) ==
    /\ config \in configs
    /\ TEMP_THRESHOLD = config.temp_threshold
    /\ TEMP_THRESHOLD_HIGH = config.temp_threshold_high
    /\ TEMP_CRITICAL = config.temp_critical
    /\ history_maxlen = HistoryCapacity(config)
    /\ temp_history =
           [i \in 1..(IF k < history_maxlen THEN k ELSE history_maxlen) |->
               QuietReading(i + (IF k < history_maxlen THEN 0
                                 ELSE k - history_maxlen),
                            config.log_interval)]
    /\ system_stats = [InitialStats(0) EXCEPT !["max_temp"] = QuietTemp,
                                              !["min_temp"] = QuietTemp]
    /\ stats_id = 0
    /\ alert_cooldown = <<>>
    /\ LOG_BUFFER =
           [i \in 1..(IF k < LOG_BUFFER_MAXLEN THEN k ELSE LOG_BUFFER_MAXLEN) |->
               QuietEntry(i + (IF k < LOG_BUFFER_MAXLEN THEN 0
                               ELSE k - LOG_BUFFER_MAXLEN),
                          config.log_interval)]
    /\ GPIO_AVAILABLE = TRUE
    /\ fan_active = FALSE
    /\ voice_enabled = FALSE
    /\ voice_response_queue = <<>>
    /\ n_voice = 0
    /\ n_toggles = 0
    /\ mqtt_client \in (IF config.mqtt_enabled THEN BOOLEAN ELSE {FALSE})
    /\ published = <<>>
    /\ degraded_notices = 0
    /\ probed = <<>>
    /\ now = k * config.log_interval
    /\ lg = LgIdle
    /\ rq = [w \in Workers |-> RqIdle]
    /\ appended = [i \in 1..k |-> QuietReading(i, config.log_interval)]
    /\ since_reset = [i \in 1..k |-> QuietTemp]
    /\ transitions = 0
    /\ deliveries = <<>>
    /\ reports = <<>>
    /\ last_sample = [taken |-> TRUE, temp |-> QuietTemp,
                      normal |-> config.temp_threshold]
    /\ n_samples = k
    /\ n_probes = 0
    /\ n_resets = 0
    /\ n_configs = 0
    /\ main = MainServing
    /\ ls = LsIdle
    /\ voice_put = <<>>
    /\ pi = PiLoaded(TRUE)

Init == InitWith(InitConfigs)

\* ------------------------------------------------- the background thread
\* log_temperature, lines 531-533: sample the source, read the clock and the
\* fan.
LogSample(max_samples, temps) ==
    /\ lg.pc = "idle"
    /\ n_samples < max_samples
    /\ \E t \in temps :
        /\ lg' = [LgIdle EXCEPT !.pc = "max", !.temp = t, !.timestamp = now,
                                !.fan_active = (GPIO_AVAILABLE /\ fan_active)]
        /\ since_reset' = Append(since_reset, t)
        /\ last_sample' = [taken |-> TRUE, temp |-> t, normal |-> TEMP_THRESHOLD]
    /\ n_samples' = n_samples + 1
    /\ UNCHANGED <<auxVars, envVars, voiceVars, progVars, now, rq, appended,
                   transitions, deliveries, reports, n_probes, n_resets,
                   n_configs>>

\* Lines 536-537.
LogUpdateMax ==
    /\ lg.pc = "max"
    /\ system_stats' = IF lg.temp > system_stats["max_temp"]
                       THEN [system_stats EXCEPT !["max_temp"] = lg.temp]
                       ELSE system_stats
    /\ lg' = [lg EXCEPT !.pc = "min"]
    /\ UNCHANGED <<auxVars, envVars, voiceVars, thresholdVars, temp_history,
                   history_maxlen, stats_id, alert_cooldown, LOG_BUFFER,
                   GPIO_AVAILABLE, fan_active, now, rq, ghostVars>>

ReadingFanNow(l) == [timestamp |-> l.timestamp, temperature |-> l.temp,
                     fan_active |-> fan_active]

\* Lines 541-546: the reading appended, from the locals of lines 531-533.
Reading(l) == [timestamp |-> l.timestamp, temperature |-> l.temp,
               fan_active |-> l.fan_active]

\* Lines 538-546: the minimum, then the append to the history (which no
\* other thread writes).
LogUpdateMin ==
    /\ lg.pc = "min"
    /\ system_stats' = IF lg.temp < system_stats["min_temp"]
                       THEN [system_stats EXCEPT !["min_temp"] = lg.temp]
                       ELSE system_stats
    /\ temp_history' = DequeAppend(temp_history, Reading(lg), history_maxlen)
    /\ appended' = Append(appended, Reading(lg))
    /\ lg' = [lg EXCEPT !.pc = "alerts"]
    /\ UNCHANGED <<auxVars, envVars, voiceVars, thresholdVars,
                   history_maxlen, stats_id, alert_cooldown, LOG_BUFFER,
                   GPIO_AVAILABLE, fan_active, now, rq, since_reset,
                   transitions, deliveries, reports, last_sample, n_samples,
                   n_probes, n_resets, n_configs>>

\* check_and_send_alerts, lines 318-338: classify the sample and test the
\* cooldown of its level; current_time is the clock read at line 318.
LogClassify ==
    /\ lg.pc = "alerts"
    /\ LET alert_type == AlertType(lg.temp, TEMP_THRESHOLD_HIGH, TEMP_CRITICAL) IN
        IF alert_type = None \/ InCooldown(alert_cooldown, alert_type, now)
        THEN lg' = [lg EXCEPT !.pc = "publish", !.current_time = now]
        ELSE lg' = [lg EXCEPT !.pc = "email", !.alert_type = alert_type,
                              !.current_time = now,
                              !.high = TEMP_THRESHOLD_HIGH,
                              !.critical = TEMP_CRITICAL]
    /\ UNCHANGED <<auxVars, envVars, voiceVars, progVars, now, rq,
                   ghostVars>>

\* History record of one channel call: the sample it was made for, the
\* thresholds the sample was classified with, the channel and the time.
ChannelEvent(l, channel, t) ==
    [temp |-> l.temp, high |-> l.high, critical |-> l.critical,
     channel |-> channel, time |-> t]

\* background_logger, lines 614-616: an exception that leaves log_temperature
\* (or time.sleep) is caught and logged, the thread sleeps 30 s and the while
\* loop goes on to the next tick.  CatchException is the state of the thread
\* after the except clause.
CatchExceptionExits(l) == [LgIdle EXCEPT !.pc = "exited"]

CatchException(l) == LgIdle

\* The except clauses of send_email_alert (line 266), send_telegram_alert
\* (line 297) and publish_mqtt_data (line 313), `except Exception`: the
\* exceptions of the transport (errors and timeouts of SendGrid, requests
\* and the MQTT client) and the KeyError of a missing counter are caught.
ChannelCatchesTransportOnly(exception) == exception = "TransportError"

ChannelCatches(exception) == exception \in {"TransportError", "KeyError"}

\* What the transport of a channel does with a message that reaches it:
\* SendGrid accepts the mail or raises; the Telegram API answers 200,
\* answers with another status (which also stands for a missing bot token or
\* chat id), or requests.post raises (a timeout included).
EmailOutcomes == {"ok", "raises"}
TransportOutcomes == {"ok", "fail", "raises"}

\* send_email_alert, lines 242-268, called at line 341.  The message is
\* delivered when sg.send returns; the counter is incremented after that,
\* and a KeyError raised by the increment is caught by the function's own
\* except clause, which returns False.  An exception the clause did not
\* catch would leave log_temperature.
SendEmail(outcome) ==
    LET enabled   == config.email_alerts /\ config.email_to # ""
        delivered == enabled /\ outcome = "ok"
        counted   == delivered /\ "email_alerts_sent" \in DOMAIN system_stats
        exception == IF enabled /\ outcome = "raises" THEN "TransportError"
                     ELSE IF delivered /\ ~counted THEN "KeyError"
                     ELSE None
    IN  /\ system_stats' =
            IF counted
            THEN [system_stats EXCEPT !["email_alerts_sent"] = @ + 1]
            ELSE system_stats
        /\ deliveries' =
            IF delivered
            THEN Append(deliveries, ChannelEvent(lg, "email", now))
            ELSE deliveries
        /\ reports' =
            IF counted THEN Append(reports, ChannelEvent(lg, "email", now))
            ELSE reports
        /\ IF exception = None \/ ChannelCatches(exception)
           THEN /\ lg' = [lg EXCEPT !.pc = "telegram", !.email_sent = counted,
                                    !.attempted = @ \cup {"email"},
                                    !.raised = IF exception = None THEN @
                                               ELSE @ \cup {"email"}]
                /\ now' = now
           ELSE /\ lg' = CatchException(lg)
                /\ now' = now + 30

LogEmail ==
    /\ lg.pc = "email"
    /\ \E outcome \in EmailOutcomes : SendEmail(outcome)
    /\ UNCHANGED <<auxVars, envVars, voiceVars, thresholdVars, temp_history,
                   history_maxlen, stats_id, alert_cooldown, LOG_BUFFER,
                   GPIO_AVAILABLE, fan_active, rq, appended, since_reset,
                   transitions, last_sample, n_samples, n_probes, n_resets,
                   n_configs>>

\* send_telegram_alert, lines 270-299, called at line 342.  The message is
\* delivered when the API answers 200; the counter is incremented after that.
SendTelegram(outcome) ==
    LET enabled   == config.telegram_alerts
        delivered == enabled /\ outcome = "ok"
        counted   == delivered /\ "telegram_alerts_sent" \in DOMAIN system_stats
        exception == IF enabled /\ outcome = "raises" THEN "TransportError"
                     ELSE IF delivered /\ ~counted THEN "KeyError"
                     ELSE None
    IN  /\ system_stats' =
            IF counted
            THEN [system_stats EXCEPT !["telegram_alerts_sent"] = @ + 1]
            ELSE system_stats
        /\ deliveries' =
            IF delivered
            THEN Append(deliveries, ChannelEvent(lg, "telegram", now))
            ELSE deliveries
        /\ reports' =
            IF counted THEN Append(reports, ChannelEvent(lg, "telegram", now))
            ELSE reports
        /\ IF exception = None \/ ChannelCatches(exception)
           THEN /\ lg' = [lg EXCEPT !.pc = "record", !.telegram_sent = counted,
                                    !.attempted = @ \cup {"telegram"},
                                    !.raised = IF exception = None THEN @
                                               ELSE @ \cup {"telegram"}]
                /\ now' = now
           ELSE /\ lg' = CatchException(lg)
                /\ now' = now + 30

LogTelegram ==
    /\ lg.pc = "telegram"
    /\ \E outcome \in TransportOutcomes : SendTelegram(outcome)
    /\ UNCHANGED <<auxVars, envVars, voiceVars, thresholdVars, temp_history,
                   history_maxlen, stats_id, alert_cooldown, LOG_BUFFER,
                   GPIO_AVAILABLE, fan_active, rq, appended, since_reset,
                   transitions, last_sample, n_samples, n_probes, n_resets,
                   n_configs>>

\* Line 344: the condition under which the alert event is recorded.
AlertSentBoth(email_sent, telegram_sent) == email_sent /\ telegram_sent

AlertSentAlways(email_sent, telegram_sent) == TRUE

AlertSent(email_sent, telegram_sent) == email_sent \/ telegram_sent

AlertEntry(l, t) ==
    [timestamp     |-> t,
     level         |-> "ALERT",
     message       |-> <<l.alert_type, l.temp>>,
     email_sent    |-> l.email_sent,
     telegram_sent |-> l.telegram_sent]

\* Lines 344-359; current_time is the clock read at line 318.
LogRecord ==
    /\ lg.pc = "record"
    /\ IF AlertSent(lg.email_sent, lg.telegram_sent)
       THEN /\ alert_cooldown' = (lg.alert_type :> lg.current_time)
                                    @@ alert_cooldown
            /\ system_stats' = [last_alert |-> lg.current_time]
                               @@ [system_stats EXCEPT
                                      !["alerts_triggered"] = @ + 1]
            /\ LOG_BUFFER' = DequeAppend(LOG_BUFFER,
                                         AlertEntry(lg, lg.current_time),
                                         LOG_BUFFER_MAXLEN)
       ELSE UNCHANGED <<alert_cooldown, system_stats, LOG_BUFFER>>
    /\ lg' = [lg EXCEPT !.pc = "publish"]
    /\ UNCHANGED <<auxVars, envVars, voiceVars, thresholdVars, temp_history,
                   history_maxlen, stats_id, GPIO_AVAILABLE, fan_active, now,
                   rq, ghostVars>>

InfoEntry(l) ==
    [timestamp   |-> l.timestamp,
     level       |-> "INFO",
     temperature |-> l.temp,
     fan_status  |-> l.fan_active]

\* publish_mqtt_data, line 304: the condition under which it publishes.
PublishDueDisabled(client, enabled) == client /\ ~enabled

PublishDue(client, enabled) == client /\ enabled

\* What mqtt_client.publish does: it takes the message or raises.
PublishOutcomes == {"ok", "raises"}

\* log_temperature, line 552: publish_mqtt_data(temp, ...), lines 301-314;
\* the payload carries round(temp, 2), which for the whole degrees of Temps
\* is the reading itself.
LogPublish ==
    /\ lg.pc = "publish"
    /\ \E outcome \in PublishOutcomes :
        LET due       == PublishDue(mqtt_client, config.mqtt_enabled)
            exception == IF due /\ outcome = "raises" THEN "TransportError"
                         ELSE None
        IN  /\ published' = IF due /\ outcome = "ok"
                            THEN Append(published, lg.temp)
                            ELSE published
            /\ IF exception = None \/ ChannelCatches(exception)
               THEN /\ lg' = [lg EXCEPT !.pc = "info",
                                        !.raised = IF exception = None THEN @
                                                   ELSE @ \cup {"mqtt"}]
                    /\ now' = now
               ELSE /\ lg' = CatchException(lg)
                    /\ now' = now + 30
    /\ UNCHANGED <<auxVars, voiceVars, progVars, mqtt_client,
                   degraded_notices, probed, rq, ghostVars>>

\* log_temperature, lines 555-563: the INFO entry; then background_logger,
\* line 613: time.sleep(config["log_interval"]).
LogInfo ==
    /\ lg.pc = "info"
    /\ LOG_BUFFER' = DequeAppend(LOG_BUFFER, InfoEntry(lg), LOG_BUFFER_MAXLEN)
    /\ now' = now + config.log_interval
    /\ lg' = LgIdle
    /\ UNCHANGED <<auxVars, envVars, voiceVars, thresholdVars, temp_history,
                   history_maxlen, system_stats, stats_id, alert_cooldown,
                   GPIO_AVAILABLE, fan_active, rq, ghostVars>>

\* An exception raised by a step of log_temperature itself leaves it and is
\* caught by background_logger.
LogRaise ==
    /\ lg.pc \notin {"idle", "exited"}
    /\ lg' = CatchException(lg)
    /\ now' = now + 30
    /\ UNCHANGED <<auxVars, envVars, voiceVars, progVars, rq, ghostVars>>

\* The wall clock advances while a tick runs: log_temperature reads it at
\* line 532 (timestamp) and check_and_send_alerts reads it again at line 318
\* (current_time).  One unit stands for any positive amount of time; a tick
\* is taken to run for at most max_elapsed.
TimePasses(max_elapsed) ==
    /\ lg.pc \notin {"idle", "exited"}
    /\ now - lg.timestamp < max_elapsed
    /\ now' = now + 1
    /\ UNCHANGED <<auxVars, envVars, voiceVars, progVars, lg, rq, ghostVars>>

\* --------------------------------------------- the request handler threads
\* dashboard, line 625, and api_status, line 1591: temp = get_cpu_temp().
ProbeSample(w, max_probes, temps) ==
    /\ rq[w].pc = "idle"
    /\ n_probes < max_probes
    /\ \E t \in temps :
        /\ rq' = [rq EXCEPT ![w] = [RqIdle EXCEPT !.pc = "control_fan", !.temp = t]]
        /\ last_sample' = [taken |-> TRUE, temp |-> t, normal |-> TEMP_THRESHOLD]
    /\ n_probes' = n_probes + 1
    /\ UNCHANGED <<auxVars, envVars, voiceVars, progVars, now, lg, appended,
                   since_reset, transitions, deliveries, reports, n_samples,
                   n_resets, n_configs>>

\* The same with the sources of get_cpu_temp spelled out.
ProbeSampleSource(w, max_probes) ==
    /\ rq[w].pc = "idle"
    /\ n_probes < max_probes
    /\ \E e \in SourceEnvs :
        LET t == GetCpuTemp(config, e) IN
        /\ rq' = [rq EXCEPT ![w] = [RqIdle EXCEPT !.pc = "control_fan",
                                                  !.temp = t, !.source = <<e>>]]
        /\ last_sample' = [taken |-> TRUE, temp |-> t, normal |-> TEMP_THRESHOLD]
    /\ n_probes' = n_probes + 1
    /\ UNCHANGED <<auxVars, envVars, voiceVars, progVars, now, lg, appended,
                   since_reset, transitions, deliveries, reports, n_samples,
                   n_resets, n_configs>>

\* control_fan, lines 581-603: the command the branch taken issues, "on",
\* "off" or None, from the temperature, the thresholds and fan.is_active.
FanCommand(temp, normal, high, critical, is_active) ==
    IF temp > critical THEN (IF ~is_active THEN "on" ELSE None)
    ELSE IF temp > high THEN (IF ~is_active THEN "on" ELSE None)
    ELSE IF temp > normal THEN (IF ~is_active THEN "on" ELSE None)
    ELSE (IF is_active THEN "off" ELSE None)

\* control_fan, lines 573-583/589/595/601: the availability guard (which
\* writes the notice of line 574 and returns), the threshold comparisons and
\* the test of fan.is_active.
ControlFanCheck(w) ==
    /\ rq[w].pc = "control_fan"
    /\ LET cmd == FanCommand(rq[w].temp, TEMP_THRESHOLD, TEMP_THRESHOLD_HIGH,
                             TEMP_CRITICAL, fan_active)
       IN  rq' = [rq EXCEPT ![w].pc =
                    IF ~GPIO_AVAILABLE THEN "idle"
                    ELSE IF cmd = "on" THEN "fan_on"
                    ELSE IF cmd = "off" THEN "fan_off"
                    ELSE "idle"]
    /\ degraded_notices' = IF ~GPIO_AVAILABLE THEN degraded_notices + 1
                           ELSE degraded_notices
    /\ probed' = IF ~GPIO_AVAILABLE THEN Append(probed, rq[w].temp)
                 ELSE probed
    /\ UNCHANGED <<auxVars, voiceVars, progVars, mqtt_client, published, now,
                   lg, ghostVars>>

\* fan.on(), lines 584/590/596.
ControlFanOn(w) ==
    /\ rq[w].pc = "fan_on"
    /\ fan_active' = TRUE
    /\ rq' = [rq EXCEPT ![w].pc = "inc_load", ![w].turned_on = ~fan_active]
    /\ UNCHANGED <<auxVars, envVars, voiceVars, thresholdVars, temp_history,
                   history_maxlen, system_stats, stats_id, alert_cooldown,
                   LOG_BUFFER, GPIO_AVAILABLE, now, lg, ghostVars>>

\* system_stats["fan_cycles"] += 1, lines 585/591/597: the dictionary and
\* the old count are loaded ...
ControlFanIncLoad(w) ==
    /\ rq[w].pc = "inc_load"
    /\ rq' = [rq EXCEPT ![w].pc = "inc_store", ![w].stats_ref = stats_id,
                        ![w].loaded = system_stats["fan_cycles"]]
    /\ UNCHANGED <<auxVars, envVars, voiceVars, progVars, now, lg,
                   ghostVars>>

\* ... and the sum is stored into the dictionary that was loaded, which is
\* no longer system_stats when reset_stats has rebound the name since.  An
\* OFF-to-ON transition is counted in transitions when its increment lands
\* in the current dictionary, so that a reset between fan.on() and the
\* increment is not held against the code.
FanCyclesAfter(loaded) == loaded + 1

FanCyclesStoredWithAlert(stats, loaded) ==
    [stats EXCEPT !["fan_cycles"] = FanCyclesAfter(loaded),
                  !["alerts_triggered"] = @ + 1]

\* The store of the statement: the key fan_cycles, and no other, is assigned.
FanCyclesStored(stats, loaded) ==
    [stats EXCEPT !["fan_cycles"] = FanCyclesAfter(loaded)]

ControlFanIncStore(w) ==
    /\ rq[w].pc = "inc_store"
    /\ system_stats' = IF rq[w].stats_ref = stats_id
                       THEN FanCyclesStored(system_stats, rq[w].loaded)
                       ELSE system_stats
    /\ transitions' = IF rq[w].stats_ref = stats_id /\ rq[w].turned_on
                      THEN transitions + 1 ELSE transitions
    /\ rq' = [rq EXCEPT ![w] = RqIdle]
    /\ UNCHANGED <<auxVars, envVars, voiceVars, thresholdVars, temp_history,
                   history_maxlen, stats_id, alert_cooldown, LOG_BUFFER,
                   GPIO_AVAILABLE, fan_active, now, lg, appended,
                   since_reset, deliveries, reports, last_sample, n_samples,
                   n_probes, n_resets, n_configs>>

\* fan.off(), line 602.
ControlFanOff(w) ==
    /\ rq[w].pc = "fan_off"
    /\ fan_active' = FALSE
    /\ rq' = [rq EXCEPT ![w] = RqIdle]
    /\ UNCHANGED <<auxVars, envVars, voiceVars, thresholdVars, temp_history,
                   history_maxlen, system_stats, stats_id, alert_cooldown,
                   LOG_BUFFER, GPIO_AVAILABLE, now, lg, ghostVars>>

Probe(w, max_probes, temps) ==
    \/ ProbeSample(w, max_probes, temps)
    \/ ControlFanCheck(w) \/ ControlFanOn(w) \/ ControlFanIncLoad(w)
    \/ ControlFanIncStore(w) \/ ControlFanOff(w)

ControlFan(w) ==
    \/ ControlFanCheck(w) \/ ControlFanOn(w) \/ ControlFanIncLoad(w)
    \/ ControlFanIncStore(w) \/ ControlFanOff(w)

\* reset_stats, lines 1645-1655: system_stats is rebound to a new dictionary.
ResetStats(w, admitted) ==
    /\ rq[w].pc = "idle"
    /\ admitted
    /\ system_stats' = ResetStatsValue(now)
    /\ stats_id' = stats_id + 1
    /\ since_reset' = <<>>
    /\ transitions' = 0
    /\ n_resets' = n_resets + 1
    /\ UNCHANGED <<auxVars, envVars, voiceVars, thresholdVars, temp_history,
                   history_maxlen, alert_cooldown, LOG_BUFFER,
                   GPIO_AVAILABLE, fan_active, now, lg, rq, appended,
                   deliveries, reports, last_sample, n_samples, n_probes,
                   n_configs>>

\* configuration, lines 1232-1235: the validation of the posted thresholds.
ThresholdsValidLax(form) ==
    /\ ~(form.temp_threshold > form.temp_threshold_high)
    /\ ~(form.temp_threshold_high > form.temp_critical)

ThresholdsValid(form) ==
    /\ ~(form.temp_threshold >= form.temp_threshold_high)
    /\ ~(form.temp_threshold_high >= form.temp_critical)

\* configuration, lines 1207-1250: the message the request ends with.
ConfigMessage(form, env) ==
    IF env = "bad_input" THEN "Error: Invalid input values"
    ELSE IF ~ThresholdsValid(form)
        THEN IF form.temp_threshold >= form.temp_threshold_high
             THEN "Error: High threshold must be greater than normal threshold"
             ELSE "Error: Critical threshold must be greater than high threshold"
    ELSE IF form.fan_pin < 1 \/ form.fan_pin > 40
        THEN "Error: GPIO pin must be between 1 and 40"
    ELSE IF env = "save_fails" THEN "Error: Failed to save configuration"
    ELSE "Configuration saved successfully!"

\* configuration, lines 1206-1241 and 1246-1252: the form is parsed and
\* validated; a valid form is saved, and when save_config succeeded the
\* name config is rebound to it.
ConfigSubmit(w, admitted) ==
    /\ rq[w].pc = "idle"
    /\ admitted
    /\ \E form \in ConfigForms, env \in ConfigEnvs :
        LET message == ConfigMessage(form, env) IN
        IF message = "Configuration saved successfully!"
        THEN /\ config' = form
             /\ rq' = [rq EXCEPT ![w] = [RqIdle EXCEPT !.pc = "set_threshold",
                                                       !.form = <<form>>,
                                                       !.response = message]]
        ELSE /\ config' = config
             /\ rq' = [rq EXCEPT ![w] = [RqIdle EXCEPT !.form = <<form>>,
                                                       !.response = message]]
    /\ n_configs' = n_configs + 1
    /\ UNCHANGED <<auxVars, envVars, voiceVars, TEMP_THRESHOLD,
                   TEMP_THRESHOLD_HIGH, TEMP_CRITICAL, temp_history,
                   history_maxlen, system_stats, stats_id, alert_cooldown,
                   LOG_BUFFER, GPIO_AVAILABLE, fan_active, now, lg, appended,
                   since_reset, transitions, deliveries, reports,
                   last_sample, n_samples, n_probes, n_resets>>

\* Line 1242.
ConfigSetThreshold(w) ==
    /\ rq[w].pc = "set_threshold"
    /\ TEMP_THRESHOLD' = config.temp_threshold
    /\ rq' = [rq EXCEPT ![w].pc = "set_high"]
    /\ UNCHANGED <<auxVars, envVars, voiceVars, config, TEMP_THRESHOLD_HIGH,
                   TEMP_CRITICAL, temp_history, history_maxlen, system_stats,
                   stats_id, alert_cooldown, LOG_BUFFER, GPIO_AVAILABLE,
                   fan_active, now, lg, ghostVars>>

\* Line 1243.
ConfigSetHigh(w) ==
    /\ rq[w].pc = "set_high"
    /\ TEMP_THRESHOLD_HIGH' = config.temp_threshold_high
    /\ rq' = [rq EXCEPT ![w].pc = "set_critical"]
    /\ UNCHANGED <<auxVars, envVars, voiceVars, config, TEMP_THRESHOLD,
                   TEMP_CRITICAL, temp_history, history_maxlen, system_stats,
                   stats_id, alert_cooldown, LOG_BUFFER, GPIO_AVAILABLE,
                   fan_active, now, lg, ghostVars>>

\* Lines 1244-1246.
ConfigSetCritical(w) ==
    /\ rq[w].pc = "set_critical"
    /\ TEMP_CRITICAL' = config.temp_critical
    /\ rq' = [rq EXCEPT ![w].pc = "idle"]
    /\ UNCHANGED <<auxVars, envVars, voiceVars, config, TEMP_THRESHOLD,
                   TEMP_THRESHOLD_HIGH, temp_history, history_maxlen,
                   system_stats, stats_id, alert_cooldown, LOG_BUFFER,
                   GPIO_AVAILABLE, fan_active, now, lg, ghostVars>>

Configuration(w, admitted) ==
    \/ ConfigSubmit(w, admitted)
    \/ ConfigSetThreshold(w) \/ ConfigSetHigh(w) \/ ConfigSetCritical(w)

\* export_csv, lines 1668-1675: the alert level column.
CsvAlertLevel(temp) ==
    IF temp > TEMP_CRITICAL THEN "CRITICAL"
    ELSE IF temp > TEMP_THRESHOLD_HIGH THEN "HIGH"
    ELSE IF temp > TEMP_THRESHOLD THEN "WARM"
    ELSE "NORMAL"

\* export_csv, lines 1677-1682: the row written for a reading.
CsvRow(reading) ==
    [timestamp   |-> reading.timestamp,
     temperature |-> reading.temperature,
     fan_status  |-> IF reading.fan_active THEN "ON" ELSE "OFF",
     alert_level |-> CsvAlertLevel(reading.temperature)]

\* The state of the deque temp_history: every append changes it (the
\* history is appended to at line 542 only).
DequeState == Len(appended)

\* export_csv, lines 1657-1667: the header is written and `for reading in
\* temp_history` makes an iterator over the deque itself.
ExportCsvStart(w) ==
    /\ rq[w].pc = "idle"
    /\ rq' = [rq EXCEPT ![w] = [RqIdle EXCEPT !.pc = "csv_iter",
                                              !.it_state = DequeState,
                                              !.snapshot = temp_history]]
    /\ UNCHANGED <<auxVars, envVars, voiceVars, progVars, now, lg,
                   ghostVars>>

\* One round of the for loop, lines 1667-1683: the iterator raises
\* RuntimeError ("deque mutated during iteration") when the deque's state is
\* not the one it was made with, which nothing in export_csv catches; it
\* ends the loop after the last element, and the response is returned;
\* otherwise the row of the next reading is written.
ExportCsvNext(w) ==
    /\ rq[w].pc = "csv_iter"
    /\ IF DequeState # rq[w].it_state
       THEN rq' = [rq EXCEPT ![w] = [RqIdle EXCEPT
                        !.response = "RuntimeError",
                        !.rows = rq[w].rows, !.snapshot = rq[w].snapshot]]
       ELSE IF rq[w].it_index = Len(temp_history)
       THEN rq' = [rq EXCEPT ![w] = [RqIdle EXCEPT
                        !.response = "text/csv",
                        !.rows = rq[w].rows, !.snapshot = rq[w].snapshot]]
       ELSE rq' = [rq EXCEPT
                        ![w].rows = Append(@, CsvRow(temp_history[rq[w].it_index + 1])),
                        ![w].it_index = @ + 1]
    /\ UNCHANGED <<auxVars, envVars, voiceVars, progVars, now, lg,
                   ghostVars>>

ExportCsv(w) == ExportCsvStart(w) \/ ExportCsvNext(w)

\* fan_status, lines 565-569.
FanStatus ==
    IF ~GPIO_AVAILABLE THEN "UNAVAILABLE"
    ELSE IF fan_active THEN "ON" ELSE "OFF"

\* process_voice_command, lines 371-465, for a reading of get_cpu_temp given
\* in hundredths of a degree: the branch taken, whether it raised (the alert
\* summary reads the per-channel counters), and what the response mentions:
\* the wording for the reading, the reading as shown, the fan status and the
\* numbers quoted.
VoiceResponse(command_text, reading) ==
    LET category == VoiceCategory(command_text)
        none     == [category |-> category, raised |-> FALSE,
                     severity |-> None, reading |-> 0, shown |-> 0,
                     status |-> None, counts |-> <<>>]
    IN  IF category = "temperature"
        THEN [none EXCEPT
                !.severity = VoiceSeverity(reading, 100 * TEMP_THRESHOLD,
                                           100 * TEMP_THRESHOLD_HIGH,
                                           100 * TEMP_CRITICAL),
                !.reading = reading, !.shown = Format1f(reading)]
        ELSE IF category = "fan"
        THEN [none EXCEPT !.status = FanStatus,
                          !.counts = <<system_stats["fan_cycles"]>>]
        ELSE IF category = "system"
        THEN [none EXCEPT !.reading = reading, !.shown = Format1f(reading),
                          !.status = FanStatus,
                          !.counts = <<system_stats["alerts_triggered"]>>]
        ELSE IF category = "alerts"
        THEN IF {"email_alerts_sent", "telegram_alerts_sent"}
                    \subseteq DOMAIN system_stats
             THEN [none EXCEPT !.counts =
                        <<system_stats["alerts_triggered"],
                          system_stats["email_alerts_sent"],
                          system_stats["telegram_alerts_sent"]>>]
             ELSE [none EXCEPT !.raised = TRUE]
        ELSE IF category = "statistics"
        THEN [none EXCEPT !.counts =
                    <<Format1f(100 * system_stats["max_temp"]),
                      Format1f(100 * system_stats["min_temp"])>>]
        ELSE none

VoiceEntry(command, response, t) ==
    [timestamp |-> t, level |-> "VOICE", command |-> command,
     response |-> response]

\* process_voice_command, lines 455-460: the only assignment to a global.
VoiceEnabledAfterHelp(category, enabled) ==
    IF category \in {"disable", "help"} THEN FALSE ELSE enabled

VoiceEnabledAfter(category, enabled) ==
    IF category = "disable" THEN FALSE ELSE enabled

\* test_voice_command, lines 2328-2338 and 2362-2365: an empty command is
\* answered with 400; otherwise process_voice_command is called, and an
\* exception it raises is answered with 500.  The status of an answer still
\* in the making is 0.
VoiceTest(w, max_commands, texts, readings) ==
    /\ rq[w].pc = "idle"
    /\ n_voice < max_commands
    /\ \E command \in texts, reading \in readings :
        LET response == VoiceResponse(command, reading) IN
        IF command = <<>>
        THEN /\ rq' = [rq EXCEPT ![w] = [RqIdle EXCEPT !.reply =
                        <<[status |-> 400, command |-> command,
                           response |-> <<>>]>>]]
             /\ voice_enabled' = voice_enabled
        ELSE IF response.raised
        THEN /\ rq' = [rq EXCEPT ![w] = [RqIdle EXCEPT !.reply =
                        <<[status |-> 500, command |-> command,
                           response |-> <<response>>]>>]]
             /\ voice_enabled' = voice_enabled
        ELSE /\ voice_enabled' =
                    VoiceEnabledAfter(response.category, voice_enabled)
             /\ rq' = [rq EXCEPT ![w] = [RqIdle EXCEPT
                        !.pc = "voice_record",
                        !.reply = <<[status |-> 0, command |-> command,
                                     response |-> <<response>>]>>]]
    /\ n_voice' = n_voice + 1
    /\ UNCHANGED <<auxVars, progVars, voice_response_queue, n_toggles,
                   envVars, now, lg, ghostVars>>

\* test_voice_command, lines 2340-2360: a VOICE entry is appended to the log
\* buffer, the answer is put on voice_response_queue and returned.
VoiceTestRecord(w) ==
    /\ rq[w].pc = "voice_record"
    /\ LET answer == rq[w].reply[1] IN
        /\ LOG_BUFFER' = DequeAppend(LOG_BUFFER,
                             VoiceEntry(answer.command, answer.response[1], now),
                             LOG_BUFFER_MAXLEN)
        /\ voice_response_queue' =
               Append(voice_response_queue,
                      [timestamp |-> now, command |-> answer.command,
                       response |-> answer.response[1]])
        /\ voice_put' =
               Append(voice_put,
                      [timestamp |-> now, command |-> answer.command,
                       response |-> answer.response[1]])
        /\ rq' = [rq EXCEPT ![w].pc = "idle",
                            ![w].reply = <<[answer EXCEPT !.status = 200]>>]
    /\ UNCHANGED <<main, ls, pi, thresholdVars, temp_history, history_maxlen, system_stats,
                   stats_id, alert_cooldown, GPIO_AVAILABLE, fan_active,
                   voice_enabled, n_voice, n_toggles, envVars, now, lg,
                   ghostVars>>

\* toggle_voice_control, line 2309, voice_enabled = not voice_enabled: the
\* global is loaded ...
ToggleVoiceLoad(w, admitted) ==
    /\ rq[w].pc = "idle"
    /\ admitted
    /\ rq' = [rq EXCEPT ![w] = [RqIdle EXCEPT !.pc = "toggle_store",
                                              !.flag = voice_enabled]]
    /\ n_toggles' = n_toggles + 1
    /\ UNCHANGED <<auxVars, progVars, voice_enabled, voice_response_queue,
                   n_voice, envVars, now, lg, ghostVars>>

\* ... and its negation is stored; lines 2311-2325: the INFO entry with the
\* value the global then has.
ToggleVoiceStore(w) ==
    /\ rq[w].pc = "toggle_store"
    /\ voice_enabled' = ~rq[w].flag
    /\ LOG_BUFFER' = DequeAppend(LOG_BUFFER,
                         [timestamp |-> now, level |-> "INFO",
                          voice_control |-> ~rq[w].flag],
                         LOG_BUFFER_MAXLEN)
    /\ rq' = [rq EXCEPT ![w].pc = "idle"]
    /\ UNCHANGED <<auxVars, thresholdVars, temp_history, history_maxlen,
                   system_stats, stats_id, alert_cooldown, GPIO_AVAILABLE,
                   fan_active, voice_response_queue, n_voice, n_toggles,
                   envVars, now, lg, ghostVars>>

ToggleVoiceControl(w, admitted) ==
    \/ ToggleVoiceLoad(w, admitted)
    \/ ToggleVoiceStore(w)

\* -------------------------------------------- the voice history readers
\* The slice s[-n:] of a list.
Tail_n(s, n) == SubSeq(s, IF Len(s) > n THEN Len(s) - n + 1 ELSE 1, Len(s))

\* voice_command_history, lines 2366-2369: the request begins with empty
\* locals.
VoiceHistoryStart(w) ==
    /\ rq[w].pc = "idle"
    /\ rq' = [rq EXCEPT ![w] = [RqIdle EXCEPT !.pc = "history_get"]]
    /\ UNCHANGED <<auxVars, progVars, voiceVars, envVars, now, lg,
                   ghostVars>>

\* Lines 2372-2378: one round of the first loop.  An item is taken off
\* voice_response_queue and kept in history and temp_queue; the loop ends
\* when the queue is found empty.
VoiceHistoryGet(w) ==
    /\ rq[w].pc = "history_get"
    /\ IF voice_response_queue = <<>>
       THEN /\ rq' = [rq EXCEPT ![w].pc = "history_put"]
            /\ voice_response_queue' = voice_response_queue
       ELSE /\ rq' = [rq EXCEPT
                        ![w].history = Append(@, Head(voice_response_queue)),
                        ![w].temp_queue = Append(@, Head(voice_response_queue))]
            /\ voice_response_queue' = Tail(voice_response_queue)
    /\ UNCHANGED <<auxVars, progVars, voice_enabled, n_voice, n_toggles,
                   envVars, now, lg, ghostVars>>

\* Lines 2381-2391: one round of the second loop.  An item of temp_queue is
\* put back at the end of voice_response_queue; when temp_queue is empty the
\* last 20 items of history are returned.
VoiceHistoryPut(w) ==
    /\ rq[w].pc = "history_put"
    /\ IF rq[w].temp_queue = <<>>
       THEN /\ rq' = [rq EXCEPT ![w] = [RqIdle EXCEPT
                         !.shown = <<Tail_n(rq[w].history, 20)>>]]
            /\ voice_response_queue' = voice_response_queue
       ELSE /\ rq' = [rq EXCEPT ![w].temp_queue = Tail(@)]
            /\ voice_response_queue' =
                   Append(voice_response_queue, Head(rq[w].temp_queue))
    /\ UNCHANGED <<auxVars, progVars, voice_enabled, n_voice, n_toggles,
                   envVars, now, lg, ghostVars>>

VoiceCommandHistory(w) ==
    \/ VoiceHistoryStart(w)
    \/ VoiceHistoryGet(w)
    \/ VoiceHistoryPut(w)

\* voice_control, lines 2290-2291: the page begins to collect the history.
VoiceControlStart(w) ==
    /\ rq[w].pc = "idle"
    /\ rq' = [rq EXCEPT ![w] = [RqIdle EXCEPT !.pc = "page_get"]]
    /\ UNCHANGED <<auxVars, progVars, voiceVars, envVars, now, lg,
                   ghostVars>>

\* Lines 2292-2303: one round of the loop.  An item is taken off
\* voice_response_queue and kept in voice_history only; when the queue is
\* found empty the page is rendered with the last 10 items.
VoiceControlGet(w) ==
    /\ rq[w].pc = "page_get"
    /\ IF voice_response_queue = <<>>
       THEN /\ rq' = [rq EXCEPT ![w] = [RqIdle EXCEPT
                         !.shown = <<Tail_n(rq[w].history, 10)>>]]
            /\ voice_response_queue' = voice_response_queue
       ELSE /\ rq' = [rq EXCEPT
                        ![w].history = Append(@, Head(voice_response_queue))]
            /\ voice_response_queue' = Tail(voice_response_queue)
    /\ UNCHANGED <<auxVars, progVars, voice_enabled, n_voice, n_toggles,
                   envVars, now, lg, ghostVars>>

VoiceControl(w) ==
    \/ VoiceControlStart(w)
    \/ VoiceControlGet(w)

\* ------------------------------------------------------ the listener thread
\* listen_for_commands, lines 471-475: the top of a loop round.  With
\* voice_enabled false the thread sleeps and tests again; otherwise it goes
\* on to listen (recognizer and microphone are taken to be there).
ListenCheck ==
    /\ ls.pc = "idle"
    /\ voice_enabled
    /\ ls' = [ls EXCEPT !.pc = "listening"]
    /\ UNCHANGED <<main, voice_put, pi, progVars, voiceVars, envVars, now, lg,
                   rq, ghostVars>>

\* Lines 477-486: recognizer.listen blocks for up to six seconds and
\* recognize_google asks the speech service.  Nothing is heard or
\* understood (the empty text), or a text is returned, which is lowered and
\* searched for an activation phrase.
ListenCapture(max_commands) ==
    /\ ls.pc = "listening"
    /\ n_voice < max_commands
    /\ \E heard \in ListenTexts \cup {<<>>} :
        LET command_text == StrLower(heard) IN
        ls' = IF heard # <<>> /\ AnyWordIn(WakeWords, command_text)
              THEN [pc |-> "route", command |-> command_text]
              ELSE LsIdle
    /\ n_voice' = n_voice + 1
    /\ UNCHANGED <<main, voice_put, pi, progVars, voice_enabled,
                   voice_response_queue, n_toggles, envVars, now, lg, rq,
                   ghostVars>>

\* Lines 487-509: the command is routed by process_voice_command, a VOICE
\* entry is appended to the log buffer, the answer is spoken and put on
\* voice_response_queue.  An exception of the router is caught at line 521.
ListenRoute(readings) ==
    /\ ls.pc = "route"
    /\ \E reading \in readings :
        LET response == VoiceResponse(ls.command, reading) IN
        IF response.raised
        THEN UNCHANGED <<voice_enabled, LOG_BUFFER, voice_response_queue,
                         voice_put>>
        ELSE /\ voice_enabled' =
                    VoiceEnabledAfter(response.category, voice_enabled)
             /\ LOG_BUFFER' = DequeAppend(LOG_BUFFER,
                                  VoiceEntry(ls.command, response, now),
                                  LOG_BUFFER_MAXLEN)
             /\ voice_response_queue' =
                    Append(voice_response_queue,
                           [timestamp |-> now, command |-> ls.command,
                            response |-> response])
             /\ voice_put' =
                    Append(voice_put,
                           [timestamp |-> now, command |-> ls.command,
                            response |-> response])
    /\ ls' = LsIdle
    /\ UNCHANGED <<main, pi, thresholdVars, temp_history, history_maxlen,
                   system_stats, stats_id, alert_cooldown, GPIO_AVAILABLE,
                   fan_active, n_voice, n_toggles, envVars, now, lg, rq,
                   ghostVars>>

ListenForCommands(max_commands, readings) ==
    \/ ListenCheck
    \/ ListenCapture(max_commands)
    \/ ListenRoute(readings)

\* ------------------------------------------------------- the remote peer
\* The <action> parts of the request paths /api/fan/<action> explored.
PiActions ==
    { <<"o", "n">>, <<"O", "N">>, <<"O", "n">>,
      <<"o", "f", "f">>, <<"O", "F", "F">>,
      <<"t", "o", "g", "g", "l", "e">> }

\* What the driver does when it is commanded: it switches or raises.
DriverOutcomes == {"ok", "raises"}

PiActionExact(action) == action

\* pi_service control_fan, lines 102 and 105: action.lower().
PiAction(action) == StrLower(action)

\* pi_service control_fan, lines 95-116.  Without the driver the answer is
\* 400; "on" and "off" command the fan and are answered with 200, any other
\* action with 400; an exception of the driver is answered with 500.
PiControlFan(action, max_requests) ==
    /\ Len(pi.served) < max_requests
    /\ \E outcome \in DriverOutcomes :
        LET answer(status, raised) ==
                [action |-> action, status |-> status, raised |-> raised]
            requested == IF PiAction(action) = <<"o", "n">> THEN <<TRUE>>
                         ELSE IF PiAction(action) = <<"o", "f", "f">> THEN <<FALSE>>
                         ELSE <<>>
        IN  IF ~pi.available
            THEN pi' = [pi EXCEPT !.served = Append(@, answer(400, FALSE))]
            ELSE IF requested = <<>>
            THEN pi' = [pi EXCEPT !.served = Append(@, answer(400, FALSE))]
            ELSE IF outcome = "raises"
            THEN pi' = [pi EXCEPT !.served = Append(@, answer(500, TRUE))]
            ELSE pi' = [pi EXCEPT !.fan = requested[1],
                                  !.served = Append(@, answer(200, FALSE))]
    /\ UNCHANGED <<main, ls, voice_put, progVars, voiceVars, envVars, now, lg,
                   rq, ghostVars>>

\* ---------------------------------------------------------- the main thread
\* __main__, lines 2448-2463: the ways app.run can end.  It raises
\* KeyboardInterrupt, raises another exception, or returns.
RunEndings == {"KeyboardInterrupt", "Exception", "return"}

HandlerTurnsOffInterruptOnly(cause) == cause = "KeyboardInterrupt"

\* The except clauses of lines 2450 and 2459 both call fan.off(); a return of
\* app.run reaches no handler.
HandlerTurnsOff(cause) == cause \in {"KeyboardInterrupt", "Exception"}

\* Line 2449: app.run ends.
MainRunEnds ==
    /\ main.pc = "serving"
    /\ \E cause \in RunEndings :
        main' = [main EXCEPT !.pc = "handler", !.cause = cause]
    /\ UNCHANGED <<ls, voice_put, pi, progVars, voiceVars, envVars, now, lg, rq,
                   ghostVars>>

\* Lines 2450-2463: the handler for the way app.run ended logs it and, when
\* GPIO_AVAILABLE and fan, calls fan.off().
MainHandler ==
    /\ main.pc = "handler"
    /\ IF HandlerTurnsOff(main.cause) /\ GPIO_AVAILABLE
       THEN /\ fan_active' = FALSE
            /\ main' = [main EXCEPT !.pc = "exiting", !.commanded_off = TRUE]
       ELSE /\ fan_active' = fan_active
            /\ main' = [main EXCEPT !.pc = "exiting"]
    /\ UNCHANGED <<ls, voice_put, pi, thresholdVars, temp_history,
                   history_maxlen, system_stats, stats_id, alert_cooldown,
                   LOG_BUFFER, GPIO_AVAILABLE, voiceVars, envVars, now, lg, rq,
                   ghostVars>>

\* The end of the __main__ block: the process exits and its daemon threads
\* with it.
MainExit ==
    /\ main.pc = "exiting"
    /\ main' = [main EXCEPT !.pc = "exited"]
    /\ UNCHANGED <<ls, voice_put, pi, progVars, voiceVars, envVars, now, lg, rq,
                   ghostVars>>

\* --------------------------------------------------------- specifications
LogTick ==
    \/ LogUpdateMax \/ LogUpdateMin
    \/ LogClassify \/ LogEmail \/ LogTelegram \/ LogRecord
    \/ LogPublish \/ LogInfo

\* The sampling loop with the administrative requests: statistics resets and
\* configuration updates arrive at any point of a tick.
Next ==
    \/ LogSample(MaxSamples, Temps)
    \/ LogTick
    \/ ResetStats(1, n_resets + n_configs < MaxRequests)
    \/ Configuration(1, n_resets + n_configs < MaxRequests)

\* No request of Next touches the fan: the driver is taken to be available.
InitDriver == Init /\ GPIO_AVAILABLE = TRUE

Spec == InitDriver /\ [][Next]_vars

\* The fan controller: on-demand probes served by concurrent request threads,
\* beside the sampling loop and statistics resets.
NextFan ==
    \/ LogSample(FanMaxSamples, FanTemps)
    \/ LogTick
    \/ \E w \in Workers : Probe(w, FanMaxProbes, FanTemps)
    \/ \E w \in Workers : ResetStats(w, n_resets < FanMaxResets)

SpecFan == Init /\ [][NextFan]_vars

\* The fan controller while the configuration is updated: one thread serves
\* the configuration requests, another the probes.
NextTune ==
    \/ Probe(2, TuneMaxProbes, TuneTemps)
    \/ Configuration(1, n_configs < TuneMaxConfigs)

SpecTune == Init /\ [][NextTune]_vars

\* The voice command router behind /api/voice/test, with the requests that
\* change what its answers mention, served one at a time.
NextVoice ==
    \/ VoiceTest(1, VoiceMaxCommands, VoiceTexts, VoiceReadings)
    \/ VoiceTestRecord(1)
    \/ ToggleVoiceControl(1, n_toggles < VoiceMaxToggles)
    \/ ResetStats(1, n_resets < VoiceMaxResets)

\* The sampling period plays no part in these requests: one is taken.
InitVoice == Init /\ config.log_interval = 450

SpecVoice == InitVoice /\ [][NextVoice]_vars

\* The sampling loop with the telemetry sink enabled in config.json, and
\* statistics resets.
InitTelemetry == InitWith(TelemetryConfigs) /\ GPIO_AVAILABLE = TRUE

NextTelemetry ==
    \/ LogSample(TelemetryMaxSamples, Temps)
    \/ LogTick
    \/ ResetStats(1, n_resets < TelemetryMaxResets)

SpecTelemetry == InitTelemetry /\ [][NextTelemetry]_vars

\* The sampling loop alone, with the clock advancing during a tick.
NextClock ==
    \/ LogSample(ClockMaxSamples, Temps)
    \/ LogTick
    \/ TimePasses(ClockMaxElapsed)

SpecClock == InitDriver /\ [][NextClock]_vars

\* CSV exports served while the sampling loop runs.
NextExport ==
    \/ LogSample(ExportMaxSamples, Temps)
    \/ LogTick
    \/ ExportCsv(1)

SpecExport == InitDriver /\ [][NextExport]_vars

\* Voice toggles and voice commands served by concurrent request threads.
NextRace ==
    \/ \E w \in Workers : ToggleVoiceControl(w, n_toggles < RaceMaxToggles)
    \/ \E w \in Workers : VoiceTest(w, RaceMaxCommands, RaceTexts, {6000})
    \/ \E w \in Workers : VoiceTestRecord(w)

SpecRace == Init /\ [][NextRace]_vars

\* On-demand probes, served one at a time, whose samples come from
\* get_cpu_temp with its sources.
NextSource ==
    \/ ProbeSampleSource(1, SourceMaxProbes)
    \/ ControlFan(1)

SpecSource == Init /\ [][NextSource]_vars

\* The sampling loop alone, with ticks that fail: at any step of a tick an
\* exception may leave log_temperature.  The thread is scheduled fairly.
NextLoop ==
    \/ LogSample(LoopMaxSamples, Temps)
    \/ LogTick
    \/ LogRaise

SpecLoop == InitDriver /\ [][NextLoop]_vars /\ WF_vars(NextLoop)

\* The end of the process: probes are accepted while app.run serves, the
\* requests in flight go on until the process has exited.
ServedProbe(w) ==
    main.pc = "serving" /\ ProbeSample(w, ShutdownMaxProbes, FanTemps)

RunningControlFan(w) == main.pc # "exited" /\ ControlFan(w)

NextShutdown ==
    \/ \E w \in Workers : ServedProbe(w)
    \/ \E w \in Workers : RunningControlFan(w)
    \/ MainRunEnds
    \/ MainHandler
    \/ MainExit

SpecShutdown == Init /\ [][NextShutdown]_vars

\* The log buffer one entry short of its capacity: the sampling loop has run
\* LogAgedTicks quiet ticks; then ticks, voice commands and voice toggles,
\* the three writers of the log buffer.
InitLog == InitAfterQuietTicks(InitConfigs, LogAgedTicks)

NextLog ==
    \/ LogSample(LogAgedTicks + LogMaxSamples, LogTemps)
    \/ LogTick
    \/ VoiceTest(1, LogMaxCommands, RaceTexts, {6000})
    \/ VoiceTestRecord(1)
    \/ ToggleVoiceControl(1, n_toggles < LogMaxToggles)

SpecLog == InitLog /\ [][NextLog]_vars

\* The sampling loop alone, started with the sampling periods of
\* CapacityConfigs.
InitCapacity == InitWith(CapacityConfigs) /\ GPIO_AVAILABLE = TRUE

NextCapacity ==
    \/ LogSample(CapacityMaxSamples, Temps)
    \/ LogTick

SpecCapacity == InitCapacity /\ [][NextCapacity]_vars

\* The history store with everything that runs beside the sampling loop:
\* probes that switch the fan, statistics resets and configuration updates.
NextStore ==
    \/ LogSample(StoreMaxSamples, FanTemps)
    \/ LogTick
    \/ Probe(1, StoreMaxProbes, FanTemps)
    \/ ResetStats(1, n_resets + n_configs < StoreMaxRequests)
    \/ Configuration(1, n_resets + n_configs < StoreMaxRequests)

SpecStore == InitDriver /\ [][NextStore]_vars

\* The voice history readers, served by concurrent request threads while
\* voice commands are tested.
NextHistory ==
    \/ \E w \in Workers : VoiceTest(w, HistoryMaxCommands, RaceTexts, {6000})
    \/ \E w \in Workers : VoiceTestRecord(w)
    \/ \E w \in Workers : VoiceCommandHistory(w)
    \/ \E w \in Workers : VoiceControl(w)

SpecHistory == Init /\ [][NextHistory]_vars

\* The listener thread while voice control is toggled from the web
\* interface.
NextListen ==
    \/ ListenForCommands(ListenMaxCommands, {6000})
    \/ ToggleVoiceControl(1, n_toggles < ListenMaxToggles)

SpecListen == Init /\ [][NextListen]_vars

\* The remote peer serving fan requests, with or without its driver.
InitPeer == InitOf(InitConfigs, BOOLEAN)

NextPeer == \E action \in PiActions : PiControlFan(action, PeerMaxRequests)

SpecPeer == InitPeer /\ [][NextPeer]_vars

\* ------------------------------------------------------------- properties
Min2(a, b) == IF a <= b THEN a ELSE b

\* The last n elements of s (all of s when it is shorter).
LastN(n, s) == SubSeq(s, Len(s) - Min2(n, Len(s)) + 1, Len(s))

RECURSIVE SeqMax(_)
SeqMax(s) == IF Len(s) = 1 THEN s[1]
             ELSE LET m == SeqMax(Tail(s)) IN IF s[1] > m THEN s[1] ELSE m

RECURSIVE SeqMin(_)
SeqMin(s) == IF Len(s) = 1 THEN s[1]
             ELSE LET m == SeqMin(Tail(s)) IN IF s[1] < m THEN s[1] ELSE m

\* The severity level of a sample under given thresholds, as the
\* specification words it: above critical, else above high, else no alert.
SeverityLevel(temp, high, critical) ==
    IF temp > critical THEN "critical"
    ELSE IF temp > high THEN "high"
    ELSE None

\* The cooldown window of a level, in seconds: 5 and 15 minutes.
CooldownWindow(level) == IF level = "critical" THEN 5 * 60 ELSE 15 * 60

EventLevel(e) == SeverityLevel(e.temp, e.high, e.critical)

AllRequestsIdle == \A w \in Workers : rq[w].pc = "idle"

\* C1: the history never holds more than its capacity (the deque's maxlen),
\* and it always is the most recent min(number of appends, capacity)
\* readings, in the order in which log_temperature appended them.
C1_HistoryIsLatestAppended ==
    /\ Len(temp_history) <= history_maxlen
    /\ temp_history = LastN(Min2(Len(appended), history_maxlen), appended)

\* C1's case: more readings were appended than a capacity of two or more
\* holds, so the oldest reading has been evicted.
C1_Witness_Evicted ==
    /\ history_maxlen >= 2
    /\ Len(appended) > history_maxlen
    /\ Len(temp_history) = history_maxlen
    /\ temp_history[1] = appended[Len(appended) - history_maxlen + 1]

\* C2: with the driver available, once every sample taken by the periodic
\* loop and by the on-demand probes has been processed, the fan is on if and
\* only if the most recent sample was above the normal threshold.
C2_FanFollowsLastSample ==
    (GPIO_AVAILABLE /\ lg.pc = "idle" /\ AllRequestsIdle /\ last_sample.taken)
        => (fan_active <=> last_sample.temp > last_sample.normal)

\* C3: once no control_fan call is in progress, fan_cycles equals the number
\* of OFF-to-ON transitions of the fan since the last statistics reset.
C3_CyclesCountTransitions ==
    AllRequestsIdle => system_stats["fan_cycles"] = transitions

\* The times of the channel calls that reported success for an alert of the
\* given level, and the latest of them.
ReportTimes(level) ==
    { reports[i].time : i \in { j \in 1..Len(reports) :
                                  EventLevel(reports[j]) = level } }

LastReported(level) ==
    CHOOSE t \in ReportTimes(level) : \A u \in ReportTimes(level) : u <= t

\* C4: after an alert of level L was dispatched at time t (a channel reported
\* it sent), a sample of level L taken less than L's cooldown after t invokes
\* no channel, and one taken at or after t + cooldown is handed to the
\* channels again.
C4_CooldownGatesDispatch ==
    [][ (lg.pc = "alerts" /\ lg'.pc # "alerts") =>
          LET L == SeverityLevel(lg.temp, TEMP_THRESHOLD_HIGH, TEMP_CRITICAL)
          IN  (L # None /\ ReportTimes(L) # {}) =>
                IF now - LastReported(L) < CooldownWindow(L)
                THEN lg'.pc = "publish" /\ deliveries' = deliveries
                ELSE lg'.pc = "email" ]_vars

\* C4's case, the example of the specification: three critical samples; the
\* first was dispatched at time 0, the second, 150 s later, reached no
\* channel, and the third, at 300 s, is being handed to the channels.
C4_Witness_Redispatch ==
    /\ lg.pc = "email"
    /\ now = 300
    /\ Len(appended) = 3
    /\ \A i \in 1..3 : appended[i].temperature = 105
    /\ reports # <<>>
    /\ \A i \in 1..Len(deliveries) : deliveries[i].time = 0
    /\ ReportTimes("critical") = {0}

\* C5: two deliveries of an alert of the same level over the same channel are
\* at least that level's cooldown window apart.
C5_DeliveriesSeparatedByCooldown ==
    \A i, j \in 1..Len(deliveries) :
        (/\ i < j
         /\ deliveries[i].channel = deliveries[j].channel
         /\ EventLevel(deliveries[i]) = EventLevel(deliveries[j]))
        => deliveries[j].time - deliveries[i].time
              >= CooldownWindow(EventLevel(deliveries[i]))

\* C6: alert_cooldown has an entry for a level only if an alert of exactly
\* that level was dispatched (a channel reported it sent), and the entry of a
\* level is created or changed only for a sample of that level: a sample
\* with high < temperature <= critical never touches the CRITICAL entry.
C6_CooldownEntriesMatchLevel ==
    [][ /\ \A L \in DOMAIN alert_cooldown' :
              \E i \in 1..Len(reports') : EventLevel(reports'[i]) = L
        /\ \A L \in Levels :
              (\/ (L \in DOMAIN alert_cooldown') # (L \in DOMAIN alert_cooldown)
               \/ /\ L \in DOMAIN alert_cooldown
                  /\ alert_cooldown'[L] # alert_cooldown[L])
              => /\ lg.pc = "record"
                 /\ SeverityLevel(lg.temp, lg.high, lg.critical) = L ]_vars

\* C6's case: a sample between high and critical was dispatched and only the
\* HIGH entry exists.
C6_Witness_HighEntryOnly ==
    /\ DOMAIN alert_cooldown = {"high"}
    /\ lg.pc = "publish"
    /\ lg.high < lg.temp /\ lg.temp <= lg.critical
    /\ alert_cooldown["high"] = now

\* C7: when one channel reports failure and the other success, both were
\* attempted, the ALERT entry records which one sent, and alerts_triggered
\* grows by exactly one.
C7_OneChannelFailing ==
    [][ (lg.pc = "record" /\ lg'.pc # "record"
         /\ lg.email_sent # lg.telegram_sent) =>
          /\ lg.attempted = {"email", "telegram"}
          /\ system_stats'["alerts_triggered"]
                = system_stats["alerts_triggered"] + 1
          /\ LOG_BUFFER' # <<>>
          /\ SubSeq(LOG_BUFFER', 1, Len(LOG_BUFFER') - 1) = LOG_BUFFER
          /\ LET e == LOG_BUFFER'[Len(LOG_BUFFER')]
             IN  /\ e.level = "ALERT"
                 /\ e.email_sent = lg.email_sent
                 /\ e.telegram_sent = lg.telegram_sent ]_vars

\* C7's case: the e-mail failed, Telegram sent, and the event was recorded.
C7_Witness_EmailFailedTelegramSent ==
    /\ lg.pc = "publish"
    /\ ~lg.email_sent /\ lg.telegram_sent
    /\ LOG_BUFFER # <<>>
    /\ LOG_BUFFER[Len(LOG_BUFFER)].level = "ALERT"
    /\ ~LOG_BUFFER[Len(LOG_BUFFER)].email_sent
    /\ LOG_BUFFER[Len(LOG_BUFFER)].telegram_sent
    /\ system_stats["alerts_triggered"] = 1

\* C8: whenever no statistics update is in progress, max_temp and min_temp
\* are the extrema of some set of recorded samples: either both still have
\* their initial value or max_temp >= min_temp.
C8_ExtremaConsistent ==
    lg.pc \notin {"max", "min"} =>
        \/ /\ system_stats["max_temp"] = INIT_MAX_TEMP
           /\ system_stats["min_temp"] = INIT_MIN_TEMP
        \/ system_stats["max_temp"] >= system_stats["min_temp"]

\* C9: once a sample has been recorded since startup or the last reset,
\* max_temp and min_temp are the maximum and the minimum of the temperatures
\* sampled since then.
C9_ExtremaAreTrue ==
    (lg.pc \notin {"max", "min"} /\ since_reset # <<>>) =>
        /\ system_stats["max_temp"] = SeqMax(since_reset)
        /\ system_stats["min_temp"] = SeqMin(since_reset)

\* C10: a configuration change that alters the history capacity resizes the
\* history to its most recent min(new capacity, old size) readings, and the
\* history never holds more readings than the configured capacity.
C10_ResizedOnConfigChange ==
    [][ /\ HistoryCapacity(config') # HistoryCapacity(config)
            => temp_history' = LastN(HistoryCapacity(config'), temp_history)
        /\ Len(temp_history') <= HistoryCapacity(config') ]_vars

\* C13: check_and_send_alerts classifies with strict descending precedence
\* (above critical: CRITICAL, else above high: HIGH, else no alert), and a
\* sample at or below high, even one above normal, leaves the function without
\* a channel call and without a change to alert_cooldown, the statistics or
\* the log.
C13_ClassificationPrecedence ==
    [][ (lg.pc = "alerts" /\ lg'.pc # "alerts") =>
          LET L == SeverityLevel(lg.temp, TEMP_THRESHOLD_HIGH, TEMP_CRITICAL)
          IN  /\ lg'.pc = "email" => (L # None /\ lg'.alert_type = L)
              /\ L = None =>
                    /\ lg'.pc = "publish"
                    /\ lg'.attempted = {}
                    /\ alert_cooldown' = alert_cooldown
                    /\ system_stats' = system_stats
                    /\ LOG_BUFFER' = LOG_BUFFER
                    /\ deliveries' = deliveries ]_vars

\* C13's case: a sample above normal and exactly at the high threshold went
\* through the dispatcher and nothing was sent or recorded.
C13_Witness_AtHighNoAlert ==
    /\ lg.pc = "publish"
    /\ lg.temp = TEMP_THRESHOLD_HIGH
    /\ lg.temp > TEMP_THRESHOLD
    /\ AllRequestsIdle
    /\ lg.attempted = {}
    /\ deliveries = <<>>
    /\ alert_cooldown = <<>>
    /\ system_stats["alerts_triggered"] = 0

\* The strict order the specification requires of the thresholds.
Ordered(normal, high, critical) == normal < high /\ high < critical

IsError(message) == message # "Configuration saved successfully!"

C15_ThresholdsOrdered ==
    Ordered(TEMP_THRESHOLD, TEMP_THRESHOLD_HIGH, TEMP_CRITICAL)

\* C16: the read-modify-write steps of two contexts on the shared state never
\* interleave: while the tick is between its first read and its last write
\* of the statistics, and while a control_fan call is between its test of
\* the fan and its store of fan_cycles, no other context changes the
\* statistics or the fan.
C16_SingleSynchronizationBoundary ==
    [][ /\ (lg.pc \in {"max", "min"} /\ lg' = lg)
              => system_stats' = system_stats
        /\ \A w \in Workers :
              (rq[w].pc \in {"fan_on", "inc_load", "inc_store", "fan_off"}
               /\ rq'[w] = rq[w])
              => (system_stats' = system_stats /\ fan_active' = fan_active)
      ]_vars

\* C17: whatever happens to a tick that is in progress, an exception at any
\* of its steps included, a further tick is eventually executed (as long as
\* the explored number of ticks is not used up).
C17_LoopSurvivesFailures ==
    \A k \in 1..(LoopMaxSamples - 1) :
        (n_samples = k /\ lg.pc # "idle") ~> (n_samples = k + 1)

\* C17's case: the first tick raised at time 0, the loop slept its 30 s and
\* the second tick is running.
C17_Witness_TickAfterException ==
    /\ n_samples = 2
    /\ now = 30
    /\ lg.pc = "max"
    /\ Len(LOG_BUFFER) = 0

\* The real sources failed: the local probe gave no reading, and the remote
\* peer was not consulted or did not deliver a reading of a working probe.
RealSourcesFailed(cfg, e) ==
    /\ e.local # "ok"
    /\ ~(cfg.use_remote_pi /\ e.remote = "answers" /\ e.peer = "ok")

\* C18: whenever the real sources failed, the value get_cpu_temp returned
\* lies in the range of the synthetic source, 45 - 10 to 45 + 25.
C18_FallbackInRange ==
    \A w \in Workers :
        (rq[w].source # <<>> /\ RealSourcesFailed(config, rq[w].source[1]))
        => /\ rq[w].temp >= SIMULATED_BASE + SIMULATED_JITTER_LOW
           /\ rq[w].temp <= SIMULATED_BASE + SIMULATED_JITTER_HIGH

\* C19: every periodic sample is passed to the fan controller between the
\* history append and the evaluation of the alert dispatcher: when the tick
\* moves on to the dispatcher, the fan is on if and only if the sample is
\* above the normal threshold (the driver being available).
C19_TickRunsController ==
    [][ (lg.pc = "min" /\ lg'.pc = "alerts" /\ GPIO_AVAILABLE)
          => (fan_active' <=> lg.temp > TEMP_THRESHOLD) ]_vars

\* The single-threshold controller of the specification: ON above normal,
\* OFF at or below it, nothing when the fan already is in that state.
ReferenceCommand(temp, normal, is_active) ==
    IF temp > normal /\ ~is_active THEN "on"
    ELSE IF temp <= normal /\ is_active THEN "off"
    ELSE None

\* C20: with the driver available, every control_fan call issues the command
\* of the single-threshold reference for its temperature, the fan's state and
\* the normal threshold; the high and critical thresholds have no influence.
C20_SingleThresholdEquivalence ==
    [][ \A w \in Workers :
          (rq[w].pc = "control_fan" /\ rq'[w].pc # "control_fan"
           /\ GPIO_AVAILABLE) =>
            LET cmd == ReferenceCommand(rq[w].temp, TEMP_THRESHOLD, fan_active)
            IN  rq'[w].pc = IF cmd = "on" THEN "fan_on"
                            ELSE IF cmd = "off" THEN "fan_off"
                            ELSE "idle" ]_vars

\* The answers /api/voice/test gave to commands it routed.
Routed == { rq[w].reply[1] : w \in { v \in Workers : rq[v].reply # <<>>
                                      /\ rq[v].reply[1].response # <<>> } }

\* C11: a command routed to the temperature category is answered with the
\* reading (as shown: rounded to one decimal) and with the wording of strict
\* descending precedence: critical iff above critical, else warning iff above
\* high, else warm iff above normal, else normal (thresholds in strict order).
C11_TemperatureResponse ==
    \A a \in Routed :
        LET r == a.response[1]
            t == r.reading
            n == 100 * TEMP_THRESHOLD
            h == 100 * TEMP_THRESHOLD_HIGH
            c == 100 * TEMP_CRITICAL
        IN  (r.category = "temperature" /\ n < h /\ h < c) =>
              /\ r.severity = "critical" <=> t > c
              /\ r.severity = "warning"  <=> (t <= c /\ t > h)
              /\ r.severity = "warm"     <=> (t <= h /\ t > n)
              /\ r.severity = "normal"   <=> t <= n
              /\ 10 * r.shown - t <= 5
              /\ t - 10 * r.shown <= 5

\* C11's case, the example of the specification: the reading 85 with
\* critical = 80 is answered with the critical wording and 85.0.
C11_Witness_Critical85 ==
    \E a \in Routed :
        /\ a.status = 200
        /\ a.response[1].category = "temperature"
        /\ a.response[1].reading = 8500
        /\ TEMP_CRITICAL = 80
        /\ a.response[1].severity = "critical"
        /\ a.response[1].shown = 850

\* The categories in the order of the specification, with their word lists.
CategoryOrder ==
    <<"temperature", "fan", "system", "alerts", "memory", "statistics",
      "help", "report", "disable">>

CategoryWords(category) ==
    CASE category = "temperature" -> TemperatureWords
      [] category = "fan"         -> FanWords
      [] category = "system"      -> SystemWords
      [] category = "alerts"      -> AlertWords
      [] category = "memory"      -> MemoryWords
      [] category = "statistics"  -> StatisticsWords
      [] category = "help"        -> HelpWords
      [] category = "report"      -> ReportWords
      [] category = "disable"     -> DisableWords

Matching(text) ==
    { i \in DOMAIN CategoryOrder :
        AnyWordIn(CategoryWords(CategoryOrder[i]), text) }

\* C12: every routed command went to the first category, in the fixed order,
\* of which a word occurs in the lower-cased text, and to the fallback only
\* when no category has such a word.
C12_FirstMatchingCategory ==
    \A a \in Routed :
        LET text == StrLower(a.command)
            category == a.response[1].category
        IN  IF Matching(text) = {}
            THEN category = "fallback"
            ELSE /\ category \in { CategoryOrder[i] : i \in Matching(text) }
                 /\ \A i \in Matching(text) :
                        \E j \in Matching(text) :
                            j <= i /\ CategoryOrder[j] = category
                 /\ \A i \in Matching(text) :
                        CategoryOrder[i] = category
                        \/ \E j \in Matching(text) :
                              j < i /\ CategoryOrder[j] = category

\* C12's case: "fan temp" has words of the fan and of the temperature
\* category and was routed to temperature; a text without any word of a
\* category got the fallback.
C12_Witness_SeveralCategories ==
    \E a \in Routed :
        /\ a.command = <<"f", "a", "n", " ", "t", "e", "m", "p">>
        /\ Cardinality(Matching(StrLower(a.command))) = 2
        /\ a.response[1].category = "temperature"

\* C21: when the channels have been called for a due alert of level L, the
\* entry of L in alert_cooldown is set to the time the dispatcher read if a
\* channel reported success; if none did, alert_cooldown, alerts_triggered
\* and the log buffer stay as they are.  alert_cooldown changes at no other
\* step, and a sample of a level that has no entry is handed to the channels.
C21_CooldownSetOnSuccessOnly ==
    [][ /\ (lg.pc = "record" /\ lg'.pc # "record") =>
              IF lg.email_sent \/ lg.telegram_sent
              THEN /\ lg.alert_type \in DOMAIN alert_cooldown'
                   /\ alert_cooldown'[lg.alert_type] = lg.current_time
                   /\ lg.current_time = now
              ELSE /\ alert_cooldown' = alert_cooldown
                   /\ system_stats'["alerts_triggered"]
                         = system_stats["alerts_triggered"]
                   /\ LOG_BUFFER' = LOG_BUFFER
        /\ alert_cooldown' # alert_cooldown =>
              (lg.pc = "record" /\ (lg.email_sent \/ lg.telegram_sent))
        /\ (lg.pc = "alerts" /\ lg'.pc # "alerts") =>
              LET L == SeverityLevel(lg.temp, TEMP_THRESHOLD_HIGH, TEMP_CRITICAL)
              IN  (L # None /\ L \notin DOMAIN alert_cooldown)
                    => lg'.pc = "email" ]_vars

\* C21's case: the first sample of 75 (level high) was handed to the channels
\* and none reported success; nothing was recorded, and the second sample of
\* 75 is being handed to the channels again.
C21_Witness_RetryAfterFailure ==
    /\ lg.pc = "email"
    /\ lg.alert_type = "high"
    /\ n_configs = 0 /\ n_resets = 0
    /\ Len(appended) = 2
    /\ appended[1].temperature = 75 /\ appended[2].temperature = 75
    /\ reports = <<>>
    /\ alert_cooldown = <<>>
    /\ system_stats["alerts_triggered"] = 0
    /\ Len(LOG_BUFFER) = 1 /\ LOG_BUFFER[1].level = "INFO"

\* C22: whether a sample of level L is suppressed depends on the entry of L
\* alone, and neither suppressing nor dispatching an alert of level L changes
\* the entry of the other level.
C22_CooldownPerLevel ==
    [][ /\ (lg.pc = "alerts" /\ lg'.pc # "alerts") =>
              LET L == SeverityLevel(lg.temp, TEMP_THRESHOLD_HIGH, TEMP_CRITICAL)
              IN  /\ alert_cooldown' = alert_cooldown
                  /\ L # None =>
                        (lg'.pc = "publish" <=>
                            /\ L \in DOMAIN alert_cooldown
                            /\ now - alert_cooldown[L] < CooldownWindow(L))
        /\ (lg.pc = "record" /\ lg'.pc # "record") =>
              \A L \in Levels \ {lg.alert_type} :
                  /\ (L \in DOMAIN alert_cooldown') = (L \in DOMAIN alert_cooldown)
                  /\ L \in DOMAIN alert_cooldown
                        => alert_cooldown'[L] = alert_cooldown[L] ]_vars

\* C22's case: a critical alert was dispatched at time 0; 150 s later, within
\* the critical window, a high alert was dispatched all the same, and the
\* critical entry still is 0.
C22_Witness_HighDuringCriticalCooldown ==
    /\ lg.pc = "publish"
    /\ lg.alert_type = "high"
    /\ now = 150
    /\ DOMAIN alert_cooldown = {"critical", "high"}
    /\ alert_cooldown["critical"] = 0
    /\ alert_cooldown["high"] = 150

\* The step of the tick that follows the call of a channel.
AfterChannel(pc) ==
    CASE pc = "email"    -> "telegram"
      [] pc = "telegram" -> "record"
      [] pc = "publish"  -> "info"

\* C23: whatever a channel or the telemetry publish does, an exception or a
\* timeout included, the tick goes on with the step that follows the call;
\* a channel in which an exception was raised reports not sent, and what the
\* other channel reported is left as it was.
C23_ChannelFailuresContained ==
    [][ /\ (lg.pc \in {"email", "telegram", "publish"} /\ lg' # lg) =>
              /\ lg'.pc = AfterChannel(lg.pc)
              /\ lg'.temp = lg.temp
              /\ n_samples' = n_samples
              /\ now' = now
        /\ ("email" \in lg'.raised /\ "email" \notin lg.raised) =>
              (~lg'.email_sent /\ lg'.telegram_sent = lg.telegram_sent)
        /\ ("telegram" \in lg'.raised /\ "telegram" \notin lg.raised) =>
              (~lg'.telegram_sent /\ lg'.email_sent = lg.email_sent)
        /\ ("mqtt" \in lg'.raised /\ "mqtt" \notin lg.raised) =>
              /\ lg'.email_sent = lg.email_sent
              /\ lg'.telegram_sent = lg.telegram_sent ]_vars

\* C23's case: in one tick the e-mail channel and the publish raised, while
\* Telegram sent; the alert was recorded as sent by Telegram only and the
\* tick is about to write its INFO entry.
C23_Witness_EmailAndPublishRaised ==
    /\ lg.pc = "info"
    /\ lg.raised = {"email", "mqtt"}
    /\ ~lg.email_sent /\ lg.telegram_sent
    /\ LOG_BUFFER # <<>>
    /\ LOG_BUFFER[Len(LOG_BUFFER)].level = "ALERT"
    /\ ~LOG_BUFFER[Len(LOG_BUFFER)].email_sent
    /\ LOG_BUFFER[Len(LOG_BUFFER)].telegram_sent

\* C27: with the sink enabled and the client connected (the publish does not
\* raise), the publish step of every tick hands the reading of the tick's
\* sample to the broker, once, and no other step publishes.
C27_PublishOnEverySample ==
    [][ /\ (/\ lg.pc = "publish" /\ lg'.pc # "publish"
             /\ mqtt_client /\ config.mqtt_enabled
             /\ "mqtt" \notin lg'.raised)
              => published' = Append(published, lg.temp)
        /\ lg.pc # "publish" => published' = published
        /\ Len(published') <= n_samples' ]_vars

\* C27's case: two critical samples, the first dispatched at time 0 and the
\* second, 150 s later, suppressed by the cooldown; both were published.
C27_Witness_PublishedWhenSuppressed ==
    /\ lg.pc = "info"
    /\ now = 150
    /\ n_samples = 2
    /\ lg.attempted = {}
    /\ "critical" \in DOMAIN alert_cooldown
    /\ alert_cooldown["critical"] = 0
    /\ published = <<105, 105>>

\* The statistics the specification names: the cycle count, the alert count,
\* the extrema and the send count of every channel.
AggregateKeys ==
    {"fan_cycles", "alerts_triggered", "max_temp", "min_temp",
     "email_alerts_sent", "telegram_alerts_sent"}

\* C24: an administrative reset leaves every aggregate statistic present and
\* at its startup value.
C24_ResetRestoresStartup ==
    [][ n_resets' = n_resets + 1 =>
          \A k \in AggregateKeys :
              /\ k \in DOMAIN system_stats'
              /\ system_stats'[k] = InitialStats(now)[k] ]_vars

\* C25: the entries of the log buffer, all of them appended by the periodic
\* loop, and the readings of the history are in non-decreasing order of
\* their timestamps.
C25_AppendsChronological ==
    /\ \A i, j \in 1..Len(LOG_BUFFER) :
          i < j => LOG_BUFFER[i].timestamp <= LOG_BUFFER[j].timestamp
    /\ \A i, j \in 1..Len(temp_history) :
          i < j => temp_history[i].timestamp <= temp_history[j].timestamp

\* C26: a consumer of the history works on a copy made at one point in time:
\* an export never fails, and a finished export holds the rows of exactly
\* the readings the history held when the export began to read it.
C26_ConsumersReadSnapshot ==
    \A w \in Workers :
        /\ rq[w].response # "RuntimeError"
        /\ rq[w].response = "text/csv" =>
              /\ Len(rq[w].rows) = Len(rq[w].snapshot)
              /\ \A i \in 1..Len(rq[w].rows) :
                    /\ rq[w].rows[i].timestamp = rq[w].snapshot[i].timestamp
                    /\ rq[w].rows[i].temperature
                          = rq[w].snapshot[i].temperature

\* C28: the call of process_voice_command changes none of the history, the
\* statistics, the fan, the cooldowns, the log buffer, the configuration and
\* the answer queue; it changes voice_enabled only for a command routed to
\* the disable category, and then to FALSE.
C28_RouterChangesOnlyVoiceFlag ==
    [][ n_voice' = n_voice + 1 =>
          /\ progVars' = progVars
          /\ voice_response_queue' = voice_response_queue
          /\ envVars' = envVars
          /\ voice_enabled' # voice_enabled =>
                /\ ~voice_enabled'
                /\ \E w \in Workers :
                      /\ rq'[w].pc = "voice_record"
                      /\ rq[w].pc = "idle"
                      /\ Matching(StrLower(rq'[w].reply[1].command))
                            = {Len(CategoryOrder)} ]_vars

\* C28's case: voice control had been switched on and a command of the
\* disable category switched it off; nothing but the toggle's entry is in the
\* log buffer yet.
C28_Witness_DisableCommand ==
    /\ rq[1].pc = "voice_record"
    /\ rq[1].reply[1].response[1].category = "disable"
    /\ n_toggles = 1
    /\ ~voice_enabled
    /\ Len(LOG_BUFFER) = 1
    /\ LOG_BUFFER[1].level = "INFO"

\* C29: no update of voice_enabled is lost: when the toggles that were
\* requested have completed and no command was given, the flag has its
\* original value, FALSE, after an even number of toggles and the other
\* value after an odd number.
C29_VoiceFlagUpdatesSerialized ==
    (AllRequestsIdle /\ n_voice = 0) =>
        (voice_enabled <=> n_toggles % 2 = 1)

\* The state the controller intends for a sample, and the number of changes
\* of the intended state over a sequence of samples, the fan being off at
\* startup.
Intended(temp) == temp > TEMP_THRESHOLD

IntendedChanges(samples) ==
    Cardinality({ i \in 1..Len(samples) :
                    Intended(samples[i]) #
                        (IF i = 1 THEN FALSE ELSE Intended(samples[i - 1])) })

\* C30: while the driver is unavailable, once the calls of the controller
\* have returned, the reported fan state is the state intended for the last
\* sample, and one degraded-mode notice was written per change of the
\* intended state.
C30_DegradedModeReporting ==
    (~GPIO_AVAILABLE /\ AllRequestsIdle /\ probed # <<>>) =>
        /\ FanStatus = IF Intended(probed[Len(probed)]) THEN "ON" ELSE "OFF"
        /\ degraded_notices = IntendedChanges(probed)

\* C31: whenever app.run ends by a keyboard interrupt or by another exception
\* while the fan driver is available, fan.off() has been called by the time
\* the process exits, and the call leaves the fan switched off.
C31_FanOffBeforeExit ==
    [][/\ (main.pc = "exiting" /\ main'.pc = "exited"
            /\ main.cause \in {"KeyboardInterrupt", "Exception"}
            /\ GPIO_AVAILABLE)
           => main.commanded_off
       /\ (main'.commanded_off /\ ~main.commanded_off) => ~fan_active']_vars

\* The server failed with an exception while the fan was running after a
\* hot probe, and the process exited with the fan commanded off.
C31_Witness_ExitedAfterError ==
    /\ main.pc = "exited"
    /\ main.cause = "Exception"
    /\ main.commanded_off
    /\ n_probes = 1
    /\ system_stats["fan_cycles"] = 1
    /\ ~fan_active
\* A step of a request thread that serves an on-demand probe (dashboard or
\* api_status): the sample is taken or control_fan advances.
ProbePcs == {"control_fan", "fan_on", "inc_load", "inc_store", "fan_off"}

ProbeStep ==
    \E w \in Workers :
        /\ rq'[w] # rq[w]
        /\ rq[w].pc \in ProbePcs \/ rq'[w].pc \in ProbePcs

\* C32: serving a presentation endpoint leaves the history, the aggregate
\* statistics (cycle count included), the fan state and the log buffer
\* unchanged.
C32_PresentationReadOnly ==
    [][ProbeStep =>
          /\ temp_history' = temp_history
          /\ system_stats' = system_stats
          /\ fan_active' = fan_active
          /\ LOG_BUFFER' = LOG_BUFFER]_vars

\* C38: a step of an on-demand probe appends nothing to the history or the
\* log buffer, leaves every statistic other than fan_cycles (max_temp,
\* min_temp and alerts_triggered among them) and the cooldown map unchanged,
\* and invokes no alert channel.
C38_ProbeChangesOnlyFan ==
    [][ProbeStep =>
          /\ temp_history' = temp_history
          /\ appended' = appended
          /\ LOG_BUFFER' = LOG_BUFFER
          /\ alert_cooldown' = alert_cooldown
          /\ deliveries' = deliveries
          /\ lg' = lg
          /\ DOMAIN system_stats' = DOMAIN system_stats
          /\ \A k \in DOMAIN system_stats \ {"fan_cycles"} :
                 system_stats'[k] = system_stats[k]]_vars

\* A probe with a hot sample has switched the fan on and counted the cycle,
\* before any tick of the sampling loop: history and log buffer are empty and
\* the extremes are the initial ones.
C38_Witness_ProbeSwitchedFanOn ==
    /\ AllRequestsIdle
    /\ n_probes >= 1
    /\ n_samples = 0
    /\ fan_active
    /\ system_stats["fan_cycles"] = 1
    /\ system_stats["max_temp"] = INIT_MAX_TEMP
    /\ system_stats["alerts_triggered"] = 0
    /\ temp_history = <<>>
    /\ LOG_BUFFER = <<>>
LogLevels == {"INFO", "ALERT", "VOICE"}

\* C33: the log buffer never holds more than 1000 entries, whatever the
\* capacity of the history is; an append to it keeps the entries it held in
\* their order, dropping the oldest one when it was full, and the entry
\* appended has level INFO, ALERT or VOICE.
C33_LogBufferBounded ==
    /\ [](Len(LOG_BUFFER) <= 1000)
    /\ [][LOG_BUFFER' # LOG_BUFFER =>
             LET n == Len(LOG_BUFFER') IN
             /\ n = Min2(Len(LOG_BUFFER) + 1, 1000)
             /\ SubSeq(LOG_BUFFER', 1, n - 1) = LastN(n - 1, LOG_BUFFER)
             /\ LOG_BUFFER'[n].level \in LogLevels]_vars

\* The full log buffer has evicted its two oldest entries, and entries of
\* all three levels were appended to it.
C33_Witness_OldestEvicted ==
    /\ Len(LOG_BUFFER) = 1000
    /\ LOG_BUFFER[1].timestamp = 2 * config.log_interval
    /\ \E i, j, k \in 997..1000 :
          /\ LOG_BUFFER[i].level = "ALERT"
          /\ LOG_BUFFER[j].level = "INFO"
          /\ LOG_BUFFER[k].level = "VOICE"
\* retention_hours * 3600 / sample_interval_seconds rounded to the nearest
\* integer.
RoundedCapacity(cfg) ==
    (2 * cfg.data_retention_hours * 3600 + cfg.log_interval)
        \div (2 * cfg.log_interval)

\* C34: the capacity of the history is retention_hours * 3600 /
\* sample_interval_seconds rounded to the nearest integer, and it is at least
\* 1, so that the history holds the latest reading once a tick has appended
\* one.
C34_CapacityRoundedAtLeastOne ==
    /\ history_maxlen = RoundedCapacity(config)
    /\ history_maxlen >= 1
    /\ appended # <<>> => /\ temp_history # <<>>
                          /\ temp_history[Len(temp_history)]
                                 = appended[Len(appended)]
\* C35: a stored reading is never modified.  The history changes only by the
\* append of log_temperature, which keeps the readings held (less the evicted
\* oldest one) as they were; the reading appended carries the timestamp and
\* the temperature of its sample and, as its flag, the state the fan had when
\* the sample was taken.
C35_ReadingsImmutable ==
    [][/\ (lg.pc = "idle" /\ lg'.pc = "max")
           => lg'.fan_active = fan_active
       /\ temp_history' # temp_history
           => LET n == Len(temp_history') IN
              /\ lg.pc = "min" /\ lg'.pc = "alerts"
              /\ n = Min2(Len(temp_history) + 1, history_maxlen)
              /\ SubSeq(temp_history', 1, n - 1) = LastN(n - 1, temp_history)
              /\ temp_history'[n] = [timestamp |-> lg.timestamp,
                                     temperature |-> lg.temp,
                                     fan_active |-> lg.fan_active]]_vars

\* The history holds a reading taken while the fan ran and a later one taken
\* after a probe had switched it off.
C35_Witness_FlagOfSampleTime ==
    /\ Len(temp_history) = 2
    /\ temp_history[1].fan_active
    /\ ~temp_history[2].fan_active
    /\ ~fan_active
    /\ lg.pc = "idle"
\* C36: reading the voice command history is non-destructive: once the reads
\* in progress have returned, voice_response_queue holds every entry that
\* was put on it, in the order of the puts.
C36_HistoryReadsNonDestructive ==
    (\A w \in Workers : rq[w].pc \notin {"history_get", "history_put",
                                         "page_get"})
        => voice_response_queue = voice_put
\* The count a statistic shows: a key the dictionary does not hold counts
\* nothing.
StatCount(key) ==
    IF key \in DOMAIN system_stats THEN system_stats[key] ELSE 0

\* C37: once an alert evaluation has completed, the alert events counted are
\* at most the channel sends counted, which are at most twice the alert
\* events counted.
C37_SendsBoundAlerts ==
    lg.pc \notin {"alerts", "email", "telegram", "record"}
        => LET sends == StatCount("email_alerts_sent")
                            + StatCount("telegram_alerts_sent")
           IN  /\ system_stats["alerts_triggered"] <= sends
               /\ sends <= 2 * system_stats["alerts_triggered"]
\* C39: while voice_enabled is false the listener routes no command, appends
\* no VOICE entry and puts nothing on voice_response_queue; and a command of
\* the disable category leaves voice_enabled false.
C39_ListenerHonoursVoiceFlag ==
    [][(ls.pc = "route" /\ ls' # ls) =>
          /\ voice_enabled
          /\ VoiceCategory(ls.command) = "disable" => ~voice_enabled']_vars
\* The spellings of the two actions, whatever the case of their letters.
OnSpellings ==
    { <<a, b>> : a \in {"o", "O"}, b \in {"n", "N"} }

OffSpellings ==
    { <<a, b, c>> : a \in {"o", "O"}, b \in {"f", "F"}, c \in {"f", "F"} }

\* C40: a fan request to the peer is answered with an error and leaves the
\* fan as it was when the driver is unavailable or the action is neither "on"
\* nor "off" in any case of letters; otherwise it leaves the fan in the
\* requested state and is answered with 200, unless the driver raised, which
\* is answered with the error status 500.
C40_PeerFanEndpoint ==
    [][pi' # pi =>
          LET answer == pi'.served[Len(pi'.served)] IN
          /\ Len(pi'.served) = Len(pi.served) + 1
          /\ IF ~pi.available
                \/ answer.action \notin OnSpellings \cup OffSpellings
             THEN answer.status = 400 /\ pi'.fan = pi.fan
             ELSE IF answer.raised
             THEN answer.status = 500
             ELSE /\ answer.status = 200
                  /\ pi'.fan = (answer.action \in OnSpellings)]_vars

\* The peer has switched its fan on at "ON" and left it on at a repeated
\* "on".
C40_Witness_RepeatedOn ==
    /\ pi.available
    /\ Len(pi.served) = 2
    /\ pi.served[1] = [action |-> <<"O", "N">>, status |-> 200,
                       raised |-> FALSE]
    /\ pi.served[2] = [action |-> <<"o", "n">>, status |-> 200,
                       raised |-> FALSE]
    /\ pi.fan
====
